---- MODULE Spec2Model ----
(***************************************************************************)
(* Model of the InChristAI bot's coordination core: the mention sweep      *)
(* (InteractionHandler.process_mentions), the prayer keyword search        *)
(* (InChristAI._search_and_respond_to_prayers), the interactions/users     *)
(* tables they write (the delivery ledger and the actor profiles) and the  *)
(* class-level read-call counter of TwitterAPI.                            *)
(*                                                                         *)
(* Python strings are tuples of one-character strings, so that lower(),    *)
(* upper(), strip() and substring tests are computed, not assumed.         *)
(***************************************************************************)
EXTENDS Integers, Sequences, FiniteSets, TLC

\* ------------------------------------------------------------------ bounds
\* A job (mention sweep, keyword search, daily post or cleanup) starts only while fewer than
\* MaxSteps handler steps (feed reads and items gone through) have run.
MaxSteps == 3
\* Latest second the wait between two jobs may move the clock to.
MaxNow == 70
\* Read calls a behaviour of SpecQuota may count (past the limit of 100).
MaxQuotaCalls == 102
\* The composers are handed runs of letters of up to MaxTextLen characters,
MaxTextLen == 300
\* and every text of up to MaxShortLen letters, full stops and blanks.
MaxShortLen == 8
\* The clock runs through the day the process started and the MaxDay days
\* after it.
MaxDay == 1

\* ------------------------------------------------------- program constants
response_cooldown == 60
max_responses_per_hour == 30
SecondsPerHour == 3600
_read_call_limit == 100
max_response_length == 180
SleepBetweenMentions == 2

NULL == "None"

\* --------------------------------------------------------- Python strings
UpperAlpha == <<"A", "B", "C", "D", "E", "F", "G", "H", "I", "J", "K", "L", "M", "N", "O", "P", "Q", "R", "S", "T", "U", "V", "W", "X", "Y", "Z">>
LowerAlpha == <<"a", "b", "c", "d", "e", "f", "g", "h", "i", "j", "k", "l", "m", "n", "o", "p", "q", "r", "s", "t", "u", "v", "w", "x", "y", "z">>

\* The case mappings of the ASCII letters.
ToLower == [c \in {UpperAlpha[i] : i \in 1..Len(UpperAlpha)} |->
              LowerAlpha[CHOOSE i \in 1..Len(UpperAlpha) : UpperAlpha[i] = c]]
ToUpper == [c \in {LowerAlpha[i] : i \in 1..Len(LowerAlpha)} |->
              UpperAlpha[CHOOSE i \in 1..Len(LowerAlpha) : LowerAlpha[i] = c]]

\* str.lower() / str.upper() on one character and on a string.
LowerChar(c) == IF c \in DOMAIN ToLower THEN ToLower[c] ELSE c
UpperChar(c) == IF c \in DOMAIN ToUpper THEN ToUpper[c] ELSE c
lower(s) == [i \in 1..Len(s) |-> LowerChar(s[i])]
upper(s) == [i \in 1..Len(s) |-> UpperChar(s[i])]

\* `w in s` for Python strings: w occurs in s as a contiguous substring.
Contains(s, w) == \E i \in 1..(Len(s) - Len(w) + 1) : SubSeq(s, i, i + Len(w) - 1) = w

\* s.startswith(w)
StartsWith(s, w) == Len(s) >= Len(w) /\ SubSeq(s, 1, Len(w)) = w

\* str.lstrip(chars) / str.rstrip(chars) / str.strip(chars)
RECURSIVE LStripChars(_, _)
LStripChars(s, chars) ==
    IF s # << >> /\ Head(s) \in chars THEN LStripChars(Tail(s), chars) ELSE s

RECURSIVE RStripChars(_, _)
RStripChars(s, chars) ==
    IF s # << >> /\ s[Len(s)] \in chars THEN RStripChars(SubSeq(s, 1, Len(s) - 1), chars)
    ELSE s

StripChars(s, chars) == RStripChars(LStripChars(s, chars), chars)

Whitespace == {" ", "\t", "\n"}
strip(s) == StripChars(s, Whitespace)
QuoteChars == {"\"", "'"}

\* The decline sentinel of the text generator.
NO_REPLY == <<"N", "O", "_", "R", "E", "P", "L", "Y">>

\* ------------------------------------------------------------ environment
\* config.TWITTER_USER_ID: the bot's own account id.
BotUserId == "BOT"

\* The feed: every inbound item the platform may return, by id.
TweetOrder == <<"T1", "T2", "T3">>
TweetIds == {TweetOrder[i] : i \in 1..Len(TweetOrder)}
Authors == {"A1", BotUserId}

FeedItem(id) ==
    CASE id = "T1" -> [id |-> id, author_id |-> "A1", text |-> <<"P", "r", "a", "y", " ", "f", "o", "r", " ", "m", "e">>, created_at |-> 0]
      [] id = "T2" -> [id |-> id, author_id |-> "A1", text |-> <<"W", "h", "y", " ", "p", "r", "a", "y", "?">>, created_at |-> 0]
      [] id = "T3" -> [id |-> id, author_id |-> BotUserId, text |-> <<"A", "m", "e", "n">>, created_at |-> 0]

\* A batch the platform returns: the items of a set of ids, in feed order.
Range(seq) == {seq[i] : i \in 1..Len(seq)}
Batch(ids) == SelectSeq(TweetOrder, LAMBDA x : x \in ids)
MentionBatches == {Batch(ids) : ids \in SUBSET TweetIds}
\* The keyword search returns only items whose text matches the query term.
SearchableIds == {id \in TweetIds : Contains(lower(FeedItem(id).text), <<"p", "r", "a", "y">>)}
SearchBatches == {Batch(ids) : ids \in SUBSET SearchableIds}

\* What the text-generation service may answer to a mention prompt.
RAISE == <<"raise">>
RawReplies == {NO_REPLY, <<"n", "o", "_", "r", "e", "p", "l", "y", "\\", "n">>, <<"G", "o", "d", " ", "b", "l", "e", "s", "s", " ", "y", "o", "u", ".">>, << >>}
GeneratorAnswers == RawReplies \cup {RAISE}

\* Ids the platform gives to a posted reply (real) and the simulated one.
ReplyId(id) == "reply_to_" \o id
DryRunReplyId == "dry_run_reply"

\* ------------------------------------------------------------------ state
VARIABLES
    interactions,          \* table interactions: tweet_id -> <<>> or <<row>>
    users,                 \* table users: user_id -> <<>> or <<row>>
    _read_call_count,      \* TwitterAPI._read_call_count
    now,                   \* wall clock, seconds
    dry_run,               \* the process's --dry-run flag
    pc,                    \* where the single worker is
    unprocessed_mentions,  \* process_mentions: mentions still to go through
    has_responded_impl,    \* which _has_responded_to_tweet the sweep uses
    result,                \* keyword search: the selection, <<>> or <<r>>
    db_faulty,             \* whether storage calls may raise in this run
    steps,                 \* handler steps run so far: reads and items gone through
    publish_calls,         \* real reply_to_tweet invocations per tweet id
    failed_attempts,       \* tweet ids whose reply attempt failed
    acted,                 \* tweet ids acted on in the current cycle
    last_call,             \* the last feed read: reads issued and counted
    last,                  \* the last handler step, as the log reports it
    daily_posts,           \* table daily_posts: the rows, in insertion order
    post_tweet_calls,      \* the real post_tweet calls that succeeded, in order
    returned,              \* the last call made on its own: its argument and result
    running,               \* InChristAI.running
    last_run_date,         \* interval_task: last_run_date[0], a local date or NoTime
    scheduler              \* the run loop: where it is, what is due, what ran last

vars == <<interactions, users, _read_call_count, now, dry_run, pc,
          unprocessed_mentions, has_responded_impl, result,
          db_faulty, steps, publish_calls, failed_attempts, acted, last_call, last,
          daily_posts, post_tweet_calls, returned, running, last_run_date, scheduler>>

NullText == <<NULL>>
NoTime == -1

\* ----------------------------------------------------------------- ledger
\* execute_query('SELECT response_tweet_id, status FROM interactions WHERE tweet_id = %s')
SelectInteraction(db, tweet_id) == db[tweet_id]

IsBlank(s) == s \in {"", " "}

\* InteractionHandler._has_responded_to_tweet; read_ok = FALSE: the query raises.
_has_responded_to_tweet(db, tweet_id, read_ok) ==
    IF ~read_ok THEN FALSE
    ELSE LET results == SelectInteraction(db, tweet_id)
         IN  IF Len(results) > 0
             THEN results[1].response_tweet_id # NULL
                  /\ ~IsBlank(results[1].response_tweet_id)
             ELSE FALSE

\* InChristAI._has_responded_to_tweet_db_only
_has_responded_to_tweet_db_only(db, tweet_id, read_ok) ==
    IF ~read_ok THEN FALSE
    ELSE LET results == SelectInteraction(db, tweet_id)
         IN  Len(results) > 0 /\ results[1].response_tweet_id # NULL

\* The duplicate check a sweep runs: process_mentions called directly
\* (run_once) uses the handler's own; the scheduled _check_mentions patches
\* in the db-only one.
HasResponded(impl, db, tweet_id, read_ok) ==
    IF impl = "db_only" THEN _has_responded_to_tweet_db_only(db, tweet_id, read_ok)
    ELSE _has_responded_to_tweet(db, tweet_id, read_ok)

\* What psycopg2 hands back for a TIMESTAMP column: a datetime object.
PyDatetime(t) == [py |-> "datetime", t |-> t]
\* datetime.fromisoformat accepts a str only; anything else is a TypeError.
fromisoformat(v) == IF v.py = "str" THEN [ok |-> TRUE, t |-> v.t] ELSE [ok |-> FALSE, t |-> NoTime]

\* execute_query('SELECT last_interaction FROM users WHERE user_id = %s')
SelectLastInteraction(ut, user_id) ==
    [i \in 1..Len(ut[user_id]) |-> [last_interaction |-> PyDatetime(ut[user_id][i].last_interaction)]]

\* InteractionHandler._is_user_rate_limited
_is_user_rate_limited(ut, user_id, t, read_ok) ==
    IF ~read_ok THEN FALSE
    ELSE LET results == SelectLastInteraction(ut, user_id)
         IN  IF Len(results) > 0
             THEN LET parsed == fromisoformat(results[1].last_interaction)
                  IN  IF ~parsed.ok THEN FALSE    \* except Exception: return False
                      ELSE (t - parsed.t) < response_cooldown
             ELSE FALSE

\* SELECT COUNT(*) FROM interactions WHERE responded_at > %s AND status = 'completed'
CountCompletedSince(db, one_hour_ago) ==
    Cardinality({id \in DOMAIN db :
                    /\ Len(db[id]) > 0
                    /\ db[id][1].status = "completed"
                    /\ db[id][1].responded_at # NoTime
                    /\ db[id][1].responded_at > one_hour_ago})

\* InteractionHandler._hourly_response_limit_reached
_hourly_response_limit_reached(db, t, read_ok) ==
    IF ~read_ok THEN FALSE
    ELSE LET count == CountCompletedSince(db, t - SecondsPerHour)
         IN  count >= max_responses_per_hour

blocked_words == {<<"s", "p", "a", "m">>, <<"b", "o", "t">>, <<"f", "a", "k", "e">>, <<"s", "c", "a", "m">>}

\* any(word in mention['text'].lower() for word in self.blocked_words)
AnyBlockedWord(text) == \E word \in blocked_words : Contains(lower(text), word)
\* The same on the texts of the feed, computed once.
FeedBlocked == [id \in TweetIds |-> AnyBlockedWord(FeedItem(id).text)]
HasBlockedWord(mention) ==
    IF mention.id \in TweetIds /\ FeedItem(mention.id).text = mention.text
    THEN FeedBlocked[mention.id] ELSE AnyBlockedWord(mention.text)

_should_respond_to_mention_case_sensitive(impl, db, ut, mention, t, read_ok) ==
    IF mention.author_id = BotUserId THEN FALSE
    ELSE IF HasResponded(impl, db, mention.id, read_ok) THEN FALSE
    ELSE IF "text" \notin DOMAIN mention THEN FALSE
    ELSE IF \E word \in blocked_words : Contains(mention.text, word) THEN FALSE
    ELSE IF _is_user_rate_limited(ut, mention.author_id, t, read_ok) THEN FALSE
    ELSE IF _hourly_response_limit_reached(db, t, read_ok) THEN FALSE
    ELSE TRUE

\* InteractionHandler._should_respond_to_mention. A mention dict without its
\* 'text' key raises KeyError at mention['text'], which the function's own
\* handler turns into False; the helper checks catch their own exceptions.
_should_respond_to_mention(impl, db, ut, mention, t, read_ok) ==
    IF mention.author_id = BotUserId THEN FALSE
    ELSE IF HasResponded(impl, db, mention.id, read_ok) THEN FALSE
    ELSE IF "text" \notin DOMAIN mention THEN FALSE
    ELSE IF HasBlockedWord(mention) THEN FALSE
    ELSE IF _is_user_rate_limited(ut, mention.author_id, t, read_ok) THEN FALSE
    ELSE IF _hourly_response_limit_reached(db, t, read_ok) THEN FALSE
    ELSE TRUE

\* --------------------------------------------------------- reply composer
\* str.split('. ')
RECURSIVE SplitSentences(_)
SplitSentences(s) ==
    LET cuts == {i \in 1..(Len(s) - 1) : s[i] = "." /\ s[i + 1] = " "}
    IN  IF cuts = {} THEN <<s>>
        ELSE LET i == CHOOSE c \in cuts : \A d \in cuts : c <= d
             IN  <<SubSeq(s, 1, i - 1)>> \o SplitSentences(SubSeq(s, i + 2, Len(s)))

\* The loop of _format_response: append whole sentences while they fit.
RECURSIVE TakeSentences(_, _, _)
TakeSentences(sentences, truncated, ceiling) ==
    IF sentences = << >> THEN truncated
    ELSE IF Len(truncated) + Len(Head(sentences)) + 2 <= ceiling - 3
         THEN TakeSentences(Tail(sentences), truncated \o Head(sentences) \o <<".", " ">>, ceiling)
         ELSE truncated

\* A _format_response that never looks for a sentence boundary.
FormatResponseHardCut(response, ceiling) ==
    LET r == StripChars(response, QuoteChars)
    IN  IF Len(r) > ceiling THEN SubSeq(r, 1, ceiling - 3) \o <<".", ".", ".">> ELSE r

\* AIResponseGenerator._format_response with the ceiling as a parameter.
FormatResponse(response, ceiling) ==
    LET r == StripChars(response, QuoteChars)
    IN  IF Len(r) > ceiling
        THEN LET truncated == TakeSentences(SplitSentences(r), << >>, ceiling)
             IN  IF Len(truncated) > 0
                 THEN RStripChars(truncated, {".", " "}) \o <<".", ".", ".">>
                 ELSE SubSeq(r, 1, ceiling - 3) \o <<".", ".", ".">>
        ELSE r

_format_response(response) == FormatResponse(response, max_response_length)

AnyIn(text, keywords) == \E k \in keywords : Contains(text, k)

\* AIResponseGenerator._analyze_intent
_analyze_intent(text) ==
    LET text_lower == lower(text)
    IN  IF AnyIn(text_lower, {<<"p", "r", "a", "y">>, <<"p", "r", "a", "y", "e", "r">>, <<"p", "r", "a", "y", "e", "r", "s">>, <<"p", "r", "a", "y", "i", "n", "g">>, <<"p", "l", "e", "a", "s", "e", " ", "p", "r", "a", "y">>, <<"n", "e", "e", "d", " ", "p", "r", "a", "y", "e", "r">>})
        THEN "prayer_request"
        ELSE IF AnyIn(text_lower, {<<"v", "e", "r", "s", "e">>, <<"b", "i", "b", "l", "e">>, <<"s", "c", "r", "i", "p", "t", "u", "r", "e">>, <<"w", "o", "r", "d">>, <<"p", "a", "s", "s", "a", "g", "e">>})
        THEN "verse_request"
        ELSE IF AnyIn(text_lower, {<<"s", "t", "r", "u", "g", "g", "l", "i", "n", "g">>, <<"d", "i", "f", "f", "i", "c", "u", "l", "t">>, <<"h", "a", "r", "d", " ", "t", "i", "m", "e">>, <<"d", "e", "p", "r", "e", "s", "s", "e", "d">>, <<"a", "n", "x", "i", "o", "u", "s">>,
                                   <<"w", "o", "r", "r", "i", "e", "d">>, <<"s", "c", "a", "r", "e", "d">>, <<"h", "u", "r", "t">>, <<"p", "a", "i", "n">>, <<"l", "o", "s", "t">>, <<"c", "o", "n", "f", "u", "s", "e", "d">>})
        THEN "comfort_needed"
        ELSE IF AnyIn(text_lower, {<<"t", "h", "a", "n", "k">>, <<"g", "r", "a", "t", "e", "f", "u", "l">>, <<"b", "l", "e", "s", "s", "e", "d">>, <<"p", "r", "a", "i", "s", "e">>, <<"a", "m", "a", "z", "i", "n", "g">>, <<"w", "o", "n", "d", "e", "r", "f", "u", "l">>, <<"g", "l", "o", "r", "y">>})
        THEN "gratitude"
        ELSE IF Contains(text, <<"?">>)
                \/ \E w \in {<<"w", "h", "a", "t">>, <<"h", "o", "w">>, <<"w", "h", "y">>, <<"w", "h", "e", "n">>, <<"w", "h", "e", "r", "e">>, <<"w", "h", "o">>} : StartsWith(text_lower, w)
        THEN "question"
        ELSE "general"

\* The fixed table of AIResponseGenerator._get_fallback_response; each emoji
\* (one code point in the source) is written as one "*".
fallback_responses(intent) ==
    CASE intent = "prayer_request" ->
           <<"*", " ", "I", "'", "m", " ", "p", "r", "a", "y", "i", "n", "g", " ", "f", "o", "r", " ", "y", "o", "u", "!", " ", "'", "A", "n", "d", " ", "t", "h", "e", " ", "p", "e", "a", "c", "e", " ", "o", "f", " ", "G", "o", "d", ",", " ", "w", "h", "i", "c", "h", " ", "t", "r", "a", "n", "s", "c", "e", "n", "d", "s", " ", "a", "l", "l", " ", "u", "n", "d", "e", "r", "s", "t", "a", "n", "d", "i", "n", "g", ",", " ", "w", "i", "l", "l", " ", "g", "u", "a", "r", "d", " ", "y", "o", "u", "r", " ", "h", "e", "a", "r", "t", "s", " ", "a", "n", "d", " ", "y", "o", "u", "r", " ", "m", "i", "n", "d", "s", " ", "i", "n", " ", "C", "h", "r", "i", "s", "t", " ", "J", "e", "s", "u", "s", ".", "'", " ", "-", " ", "P", "h", "i", "l", "i", "p", "p", "i", "a", "n", "s", " ", "4", ":", "7">>
      [] intent = "verse_request" ->
           <<"'", "F", "o", "r", " ", "I", " ", "k", "n", "o", "w", " ", "t", "h", "e", " ", "p", "l", "a", "n", "s", " ", "I", " ", "h", "a", "v", "e", " ", "f", "o", "r", " ", "y", "o", "u", ",", "'", " ", "d", "e", "c", "l", "a", "r", "e", "s", " ", "t", "h", "e", " ", "L", "o", "r", "d", ",", " ", "'", "p", "l", "a", "n", "s", " ", "t", "o", " ", "p", "r", "o", "s", "p", "e", "r", " ", "y", "o", "u", " ", "a", "n", "d", " ", "n", "o", "t", " ", "t", "o", " ", "h", "a", "r", "m", " ", "y", "o", "u", ",", " ", "t", "o", " ", "g", "i", "v", "e", " ", "y", "o", "u", " ", "h", "o", "p", "e", " ", "a", "n", "d", " ", "a", " ", "f", "u", "t", "u", "r", "e", ".", "'", " ", "-", " ", "J", "e", "r", "e", "m", "i", "a", "h", " ", "2", "9", ":", "1", "1", " ", "*">>
      [] intent = "comfort_needed" ->
           <<"*", " ", "R", "e", "m", "e", "m", "b", "e", "r", " ", "t", "h", "a", "t", " ", "y", "o", "u", "'", "r", "e", " ", "l", "o", "v", "e", "d", " ", "a", "n", "d", " ", "n", "o", "t", " ", "a", "l", "o", "n", "e", ".", " ", "'", "T", "h", "e", " ", "L", "o", "r", "d", " ", "i", "s", " ", "c", "l", "o", "s", "e", " ", "t", "o", " ", "t", "h", "e", " ", "b", "r", "o", "k", "e", "n", "h", "e", "a", "r", "t", "e", "d", " ", "a", "n", "d", " ", "s", "a", "v", "e", "s", " ", "t", "h", "o", "s", "e", " ", "w", "h", "o", " ", "a", "r", "e", " ", "c", "r", "u", "s", "h", "e", "d", " ", "i", "n", " ", "s", "p", "i", "r", "i", "t", ".", "'", " ", "-", " ", "P", "s", "a", "l", "m", " ", "3", "4", ":", "1", "8">>
      [] intent = "gratitude" ->
           <<"*", " ", "P", "r", "a", "i", "s", "e", " ", "G", "o", "d", "!", " ", "'", "G", "i", "v", "e", " ", "t", "h", "a", "n", "k", "s", " ", "t", "o", " ", "t", "h", "e", " ", "L", "o", "r", "d", ",", " ", "f", "o", "r", " ", "h", "e", " ", "i", "s", " ", "g", "o", "o", "d", ";", " ", "h", "i", "s", " ", "l", "o", "v", "e", " ", "e", "n", "d", "u", "r", "e", "s", " ", "f", "o", "r", "e", "v", "e", "r", ".", "'", " ", "-", " ", "P", "s", "a", "l", "m", " ", "1", "0", "7", ":", "1">>
      [] intent = "question" ->
           <<"T", "h", "a", "n", "k", " ", "y", "o", "u", " ", "f", "o", "r", " ", "r", "e", "a", "c", "h", "i", "n", "g", " ", "o", "u", "t", "!", " ", "M", "a", "y", " ", "G", "o", "d", " ", "b", "l", "e", "s", "s", " ", "y", "o", "u", " ", "a", "n", "d", " ", "g", "u", "i", "d", "e", " ", "y", "o", "u", ".", " ", "'", "T", "r", "u", "s", "t", " ", "i", "n", " ", "t", "h", "e", " ", "L", "o", "r", "d", " ", "w", "i", "t", "h", " ", "a", "l", "l", " ", "y", "o", "u", "r", " ", "h", "e", "a", "r", "t", ".", "'", " ", "-", " ", "P", "r", "o", "v", "e", "r", "b", "s", " ", "3", ":", "5", " ", "*">>
      [] OTHER ->
           <<"G", "o", "d", " ", "b", "l", "e", "s", "s", " ", "y", "o", "u", "!", " ", "*", " ", "'", "B", "e", " ", "s", "t", "r", "o", "n", "g", " ", "a", "n", "d", " ", "c", "o", "u", "r", "a", "g", "e", "o", "u", "s", ".", " ", "D", "o", " ", "n", "o", "t", " ", "b", "e", " ", "a", "f", "r", "a", "i", "d", ";", " ", "d", "o", " ", "n", "o", "t", " ", "b", "e", " ", "d", "i", "s", "c", "o", "u", "r", "a", "g", "e", "d", ",", " ", "f", "o", "r", " ", "t", "h", "e", " ", "L", "o", "r", "d", " ", "y", "o", "u", "r", " ", "G", "o", "d", " ", "w", "i", "l", "l", " ", "b", "e", " ", "w", "i", "t", "h", " ", "y", "o", "u", " ", "w", "h", "e", "r", "e", "v", "e", "r", " ", "y", "o", "u", " ", "g", "o", ".", "'", " ", "-", " ", "J", "o", "s", "h", "u", "a", " ", "1", ":", "9">>

\* _get_fallback_response on the texts of the feed, computed once.
FeedFallback == [id \in TweetIds |-> fallback_responses(_analyze_intent(FeedItem(id).text))]

\* AIResponseGenerator._get_fallback_response
_get_fallback_response(mention_text) ==
    LET known == {id \in TweetIds : FeedItem(id).text = mention_text}
    IN  IF known # {} THEN FeedFallback[CHOOSE id \in known : TRUE]
        ELSE fallback_responses(_analyze_intent(mention_text))

\* AIResponseGenerator.generate_response: answer is what the completion
\* service returned, or RAISE when calling it raised.
generate_response_no_fallback(mention_text, answer) ==
    IF answer = RAISE THEN << >>
    ELSE _format_response(strip(answer))

generate_response(mention_text, answer) ==
    IF answer = RAISE THEN _get_fallback_response(mention_text)
    ELSE _format_response(strip(answer))

\* A handler that lacks the sentinel test: every text is taken as a reply.
SentinelTestAbsent(response_text) == FALSE

\* The test of _process_single_mention for the decline sentinel.
IsNoReply(response_text) == upper(strip(response_text)) = NO_REPLY

\* A reply_to_tweet without the dry-run branch.
reply_to_tweet_always_live(dry, tweet_id, outcome) ==
    IF outcome = "ok" THEN ReplyId(tweet_id) ELSE NULL

\* TwitterAPI.reply_to_tweet: the id of the posted reply, or NULL.
reply_to_tweet(dry, tweet_id, outcome) ==
    IF dry THEN DryRunReplyId
    ELSE IF outcome = "ok" THEN ReplyId(tweet_id) ELSE NULL

\* ----------------------------------------------------------- ledger writes
StoreInteractionRow_replaces_row(db, mention, write_ok) ==
    IF ~write_ok THEN db
    ELSE [db EXCEPT ![mention.id] = <<[user_id |-> mention.author_id,
                     response_text |-> NullText,
                     response_tweet_id |-> NULL,
                     created_at |-> mention.created_at,
                     responded_at |-> NoTime,
                     interaction_type |-> "mention",
                     status |-> "pending"]>>]

\* The INSERT ... ON CONFLICT (tweet_id) DO UPDATE of _store_interaction.
StoreInteractionRow(db, mention, write_ok) ==
    IF ~write_ok THEN db
    ELSE IF Len(db[mention.id]) > 0
         THEN [db EXCEPT ![mention.id] = <<[db[mention.id][1] EXCEPT
                          !.user_id = mention.author_id,
                          !.created_at = mention.created_at,
                          !.interaction_type = "mention"]>>]
         ELSE [db EXCEPT ![mention.id] = <<[user_id |-> mention.author_id,
                          response_text |-> NullText,
                          response_tweet_id |-> NULL,
                          created_at |-> mention.created_at,
                          responded_at |-> NoTime,
                          interaction_type |-> "mention",
                          status |-> "pending"]>>]

\* The INSERT ... ON CONFLICT (user_id) DO UPDATE on users, as written by
\* _store_interaction and _record_interaction.
UpsertUser(ut, user_id, t, write_ok) ==
    IF ~write_ok THEN ut
    ELSE IF Len(ut[user_id]) > 0
         THEN [ut EXCEPT ![user_id] = <<[last_interaction |-> t,
                          interaction_count |-> ut[user_id][1].interaction_count + 1]>>]
         ELSE [ut EXCEPT ![user_id] = <<[last_interaction |-> t, interaction_count |-> 1]>>]

_update_interaction_response_stamps_replies_only(db, mention_id, response_text, reply_tweet_id, t, write_ok) ==
    IF ~write_ok THEN db
    ELSE IF Len(db[mention_id]) > 0
         THEN [db EXCEPT ![mention_id] = <<[db[mention_id][1] EXCEPT
                          !.response_text = response_text,
                          !.response_tweet_id = reply_tweet_id,
                          !.responded_at = IF reply_tweet_id = NULL THEN @ ELSE t,
                          !.status = "completed"]>>]
         ELSE db

\* InteractionHandler._update_interaction_response
_update_interaction_response(db, mention_id, response_text, reply_tweet_id, t, write_ok) ==
    IF ~write_ok THEN db
    ELSE IF Len(db[mention_id]) > 0
         THEN [db EXCEPT ![mention_id] = <<[db[mention_id][1] EXCEPT
                          !.response_text = response_text,
                          !.response_tweet_id = reply_tweet_id,
                          !.responded_at = t,
                          !.status = "completed"]>>]
         ELSE db

\* The interactions upsert of InteractionHandler._record_interaction.
RecordInteractionRow(db, tweet, response_text, reply_tweet_id, t, write_ok) ==
    IF ~write_ok THEN db
    ELSE IF Len(db[tweet.id]) > 0
         THEN [db EXCEPT ![tweet.id] = <<[db[tweet.id][1] EXCEPT
                          !.user_id = tweet.author_id,
                          !.response_text = response_text,
                          !.response_tweet_id = reply_tweet_id,
                          !.responded_at = t,
                          !.interaction_type = "prayer_response",
                          !.status = "completed"]>>]
         ELSE [db EXCEPT ![tweet.id] = <<[user_id |-> tweet.author_id,
                          response_text |-> response_text,
                          response_tweet_id |-> reply_tweet_id,
                          created_at |-> t,
                          responded_at |-> t,
                          interaction_type |-> "prayer_response",
                          status |-> "completed"]>>]

\* -------------------------------------------------------------- feed reads
HttpOutcomes == {"200", "429", "500", "raise"}
TweepyOutcomes == {"v1_ok", "alt_found", "retry_ok", "retry_raise"}

\* TwitterAPI.get_mentions_tweepy: mentions_timeline, then the search by
\* user name, then mentions_timeline again; none of them is counted.
get_mentions_tweepy(tw, batch) ==
    CASE tw = "v1_ok" -> [mentions |-> batch, issued |-> 1]
      [] tw = "alt_found" /\ batch # << >> -> [mentions |-> batch, issued |-> 2]
      [] tw = "retry_raise" -> [mentions |-> << >>, issued |-> 3]
      [] OTHER -> [mentions |-> batch, issued |-> 3]

\* A 429 handled as any other failed status: the tweepy fallback is asked.
get_mentions_429_falls_back(http, tw, batch, count) ==
    CASE http = "200" -> [mentions |-> batch, count |-> count + 1, issued |-> 1]
      [] http \in {"429", "500"} -> [mentions |-> get_mentions_tweepy(tw, batch).mentions,
                                     count |-> count + 1,
                                     issued |-> 1 + get_mentions_tweepy(tw, batch).issued]
      [] OTHER -> [mentions |-> get_mentions_tweepy(tw, batch).mentions,
                   count |-> count,
                   issued |-> get_mentions_tweepy(tw, batch).issued]

\* TwitterAPI.get_mentions: the mentions returned, the counter afterwards and
\* the remote reads issued.
get_mentions(http, tw, batch, count) ==
    CASE http = "200" -> [mentions |-> batch, count |-> count + 1, issued |-> 1]
      [] http = "429" -> [mentions |-> << >>, count |-> count + 1, issued |-> 1]
      [] http = "500" -> [mentions |-> get_mentions_tweepy(tw, batch).mentions,
                          count |-> count + 1,
                          issued |-> 1 + get_mentions_tweepy(tw, batch).issued]
      [] OTHER -> [mentions |-> get_mentions_tweepy(tw, batch).mentions,
                   count |-> count,
                   issued |-> get_mentions_tweepy(tw, batch).issued]

\* TwitterAPI.search_tweets (include_thread_context is never set).
search_tweets(http, batch, count) ==
    CASE http = "200" -> [tweets |-> batch, count |-> count + 1, issued |-> 1]
      [] http \in {"429", "500"} -> [tweets |-> << >>, count |-> count + 1, issued |-> 1]
      [] OTHER -> [tweets |-> << >>, count |-> count, issued |-> 0]

\* A counter that stops at the limit instead of running past it.
get_original_tweet_capped(count) ==
    [count |-> IF count < _read_call_limit THEN count + 1 ELSE count, issued |-> 1]

\* TwitterAPI.get_original_tweet: counted before the request is sent.
get_original_tweet(count) == [count |-> count + 1, issued |-> 1]

\* TwitterAPI.get_thread_context: the original tweet, then the conversation search.
get_thread_context(count) ==
    [count |-> get_original_tweet(count).count + 1,
     issued |-> get_original_tweet(count).issued + 1]

\* TwitterAPI.get_read_call_count; percentage_used in tenths of a percent.
get_read_call_count ==
    [count |-> _read_call_count,
     limit |-> _read_call_limit,
     remaining |-> _read_call_limit - _read_call_count,
     percentage_used |-> IF _read_call_limit > 0
                         THEN (_read_call_count * 1000) \div _read_call_limit ELSE 0]

\* ----------------------------------------------------------- mention sweep
OkSet == IF db_faulty THEN BOOLEAN ELSE {TRUE}

\* The filter of process_mentions: the mentions the ledger does not show as
\* responded to.
UnprocessedMentions(impl, db, all_mentions, read_ok) ==
    SelectSeq(all_mentions, LAMBDA id : ~HasResponded(impl, db, id, read_ok))

_process_single_mention_store_raises(db, ut, mention, answer, pub, dry, t, store_ok, update_ok) ==
    LET db1 == StoreInteractionRow(db, mention, store_ok)
        ut1 == UpsertUser(ut, mention.author_id, t, store_ok)
        response_text == generate_response(mention.text, answer)
        reply_tweet_id == reply_to_tweet(dry, mention.id, pub)
    IN  IF ~store_ok \/ response_text = << >>
        THEN [db |-> db1, ut |-> ut1, success |-> FALSE, response |-> << >>,
              reply_id |-> NULL, publish |-> FALSE]
        ELSE IF IsNoReply(response_text)
        THEN [db |-> _update_interaction_response(db1, mention.id, NO_REPLY, NULL, t, update_ok),
              ut |-> ut1, success |-> TRUE, response |-> response_text,
              reply_id |-> NULL, publish |-> FALSE]
        ELSE IF reply_tweet_id # NULL
        THEN [db |-> _update_interaction_response(db1, mention.id, response_text, reply_tweet_id, t, update_ok),
              ut |-> ut1, success |-> TRUE, response |-> response_text,
              reply_id |-> reply_tweet_id, publish |-> TRUE]
        ELSE [db |-> db1, ut |-> ut1, success |-> FALSE, response |-> response_text,
              reply_id |-> NULL, publish |-> TRUE]

\* InteractionHandler._process_single_mention: the tables afterwards and what
\* happened. store_ok / update_ok = FALSE: that write raises (and is logged).
_process_single_mention(db, ut, mention, answer, pub, dry, t, store_ok, update_ok) ==
    LET db1 == StoreInteractionRow(db, mention, store_ok)
        ut1 == UpsertUser(ut, mention.author_id, t, store_ok)
        response_text == generate_response(mention.text, answer)
        reply_tweet_id == reply_to_tweet(dry, mention.id, pub)
    IN  IF response_text = << >>
        THEN [db |-> db1, ut |-> ut1, success |-> FALSE, response |-> response_text,
              reply_id |-> NULL, publish |-> FALSE]
        ELSE IF IsNoReply(response_text)
        THEN [db |-> _update_interaction_response(db1, mention.id, NO_REPLY, NULL, t, update_ok),
              ut |-> ut1, success |-> TRUE, response |-> response_text,
              reply_id |-> NULL, publish |-> FALSE]
        ELSE IF reply_tweet_id # NULL
        THEN [db |-> _update_interaction_response(db1, mention.id, response_text, reply_tweet_id, t, update_ok),
              ut |-> ut1, success |-> TRUE, response |-> response_text,
              reply_id |-> reply_tweet_id, publish |-> TRUE]
        ELSE [db |-> db1, ut |-> ut1, success |-> FALSE, response |-> response_text,
              reply_id |-> NULL, publish |-> TRUE]

NoStep == [op |-> "none", id |-> NULL, at |-> 0, author_last |-> NoTime, prev |-> << >>,
           prev_failed |-> FALSE, answer |-> << >>, should |-> FALSE,
           publish |-> FALSE, reply_id |-> NULL, success |-> FALSE,
           outcome_write_ok |-> TRUE, processed_count |-> 0]
\* http: the status of the direct request, where the call has one; items:
\* the number of items handed back.
NoCall == [op |-> "none", counted |-> 0, issued |-> 0, http |-> "none", items |-> 0]
\* The run loop before start(): at is its position, due the jobs run_pending
\* has still to run in this tick, job the one running, start the time the
\* jobs were registered, signal_at the position the loop was at when the
\* shutdown signal came, last_job the latest job call, search_at and
\* prev_search the times of the latest keyword search and of the one before,
\* served the latest request the health server's thread answered and the
\* position the loop was at then.
NoLoop == [at |-> "startup", due |-> << >>, job |-> "none", start |-> NoTime,
           signal_at |-> "none", served |-> [path |-> "none", at |-> "none"],
           last_job |-> [job |-> "none", at |-> NoTime, ran |-> FALSE, raised |-> FALSE,
                         prev |-> "none", prev_raised |-> FALSE],
           search_at |-> NoTime, prev_search |-> NoTime]
\* text: the text at hand; source: the text the result was made from.
NoReturn == [op |-> "none", text |-> << >>, source |-> << >>, ceiling |-> 0, value |-> << >>]

LastInteractionOf(ut, user_id) ==
    IF Len(ut[user_id]) > 0 THEN ut[user_id][1].last_interaction ELSE NoTime

\* process_mentions up to its loop: one get_mentions call, then the filter.
\* The scheduled job patches in the db-only duplicate check for the sweep and
\* puts the handler's own back when the sweep returns.
GetMentions ==
    /\ pc = "idle"
    /\ steps < MaxSteps
    /\ \E impl \in {"handler", "db_only"}, http \in HttpOutcomes, read_ok \in OkSet :
      \E batch \in MentionBatches :
      \E tw \in IF http \in {"500", "raise"} THEN TweepyOutcomes ELSE {"v1_ok"} :
        LET r == get_mentions(http, tw, batch, _read_call_count)
            todo == UnprocessedMentions(impl, interactions, r.mentions, read_ok)
        IN  /\ steps' = steps + 1
            /\ _read_call_count' = r.count
            /\ has_responded_impl' = IF todo = << >> THEN "handler" ELSE impl
            /\ unprocessed_mentions' = todo
            /\ pc' = IF todo = << >> THEN "idle" ELSE "loop"
            /\ acted' = {}
            /\ last' = NoStep
            /\ last_call' = [op |-> "get_mentions",
                             counted |-> r.count - _read_call_count,
                             issued |-> r.issued,
                             http |-> http, items |-> Len(r.mentions)]
            /\ UNCHANGED <<running, last_run_date, scheduler, daily_posts, post_tweet_calls, returned, interactions, users, now, dry_run, result, db_faulty,
                           publish_calls, failed_attempts>>

ProcessMention_failure_ends_sweep ==
    /\ pc = "loop"
    /\ \E read_ok \in OkSet, store_ok \in OkSet, update_ok \in OkSet :
      LET id == Head(unprocessed_mentions)
          mention == FeedItem(id)
          should == _should_respond_to_mention(has_responded_impl, interactions, users,
                                               mention, now, read_ok)
          rest == Tail(unprocessed_mentions)
      IN
      \E answer \in IF should THEN GeneratorAnswers ELSE {RAISE} :
      \E pub \in IF should /\ ~dry_run THEN {"ok", "fail"} ELSE {"ok"} :
        LET r == _process_single_mention(interactions, users, mention, answer, pub,
                                         dry_run, now, store_ok, update_ok)
        IN  /\ interactions' = IF should THEN r.db ELSE interactions
            /\ users' = IF should THEN r.ut ELSE users
            /\ publish_calls' = IF should /\ r.publish /\ ~dry_run
                                THEN [publish_calls EXCEPT ![id] = @ + 1] ELSE publish_calls
            /\ failed_attempts' = IF should /\ ~r.success THEN failed_attempts \cup {id}
                                  ELSE failed_attempts
            /\ acted' = IF should THEN acted \cup {id} ELSE acted
            /\ last' = [op |-> "mention", id |-> id, at |-> now,
                        author_last |-> LastInteractionOf(users, mention.author_id),
                        prev |-> interactions[id],
                        prev_failed |-> id \in failed_attempts,
                        answer |-> IF should THEN answer ELSE << >>,
                        should |-> should,
                        publish |-> should /\ r.publish,
                        reply_id |-> IF should THEN r.reply_id ELSE NULL,
                        success |-> should /\ r.success,
                        outcome_write_ok |-> ~should \/ update_ok,
                        processed_count |-> last.processed_count
                                            + IF should /\ r.success THEN 1 ELSE 0]
            /\ now' = now + SleepBetweenMentions
            /\ unprocessed_mentions' = IF should /\ ~r.success THEN << >> ELSE rest
            /\ has_responded_impl' = IF rest = << >> \/ (should /\ ~r.success)
                                     THEN "handler" ELSE has_responded_impl
            /\ pc' = IF rest = << >> \/ (should /\ ~r.success) THEN "idle" ELSE "loop"
            /\ steps' = steps + 1
            /\ UNCHANGED <<running, last_run_date, scheduler, daily_posts, post_tweet_calls, returned, _read_call_count, dry_run, result, db_faulty, last_call>>

\* One iteration of the loop of process_mentions.
ProcessMention ==
    /\ pc = "loop"
    /\ \E read_ok \in OkSet, store_ok \in OkSet, update_ok \in OkSet :
      LET id == Head(unprocessed_mentions)
          mention == FeedItem(id)
          should == _should_respond_to_mention(has_responded_impl, interactions, users,
                                               mention, now, read_ok)
          rest == Tail(unprocessed_mentions)
      IN
      \E answer \in IF should THEN GeneratorAnswers ELSE {RAISE} :
      \E pub \in IF should /\ ~dry_run THEN {"ok", "fail"} ELSE {"ok"} :
        LET r == _process_single_mention(interactions, users, mention, answer, pub,
                                         dry_run, now, store_ok, update_ok)
        IN  /\ interactions' = IF should THEN r.db ELSE interactions
            /\ users' = IF should THEN r.ut ELSE users
            /\ publish_calls' = IF should /\ r.publish /\ ~dry_run
                                THEN [publish_calls EXCEPT ![id] = @ + 1] ELSE publish_calls
            /\ failed_attempts' = IF should /\ ~r.success THEN failed_attempts \cup {id}
                                  ELSE failed_attempts
            /\ acted' = IF should THEN acted \cup {id} ELSE acted
            /\ last' = [op |-> "mention", id |-> id, at |-> now,
                        author_last |-> LastInteractionOf(users, mention.author_id),
                        prev |-> interactions[id],
                        prev_failed |-> id \in failed_attempts,
                        answer |-> IF should THEN answer ELSE << >>,
                        should |-> should,
                        publish |-> should /\ r.publish,
                        reply_id |-> IF should THEN r.reply_id ELSE NULL,
                        success |-> should /\ r.success,
                        outcome_write_ok |-> ~should \/ update_ok,
                        processed_count |-> last.processed_count
                                            + IF should /\ r.success THEN 1 ELSE 0]
            /\ now' = now + SleepBetweenMentions
            /\ unprocessed_mentions' = rest
            /\ has_responded_impl' = IF rest = << >> THEN "handler" ELSE has_responded_impl
            /\ pc' = IF rest = << >> THEN "idle" ELSE "loop"
            /\ steps' = steps + 1
            /\ UNCHANGED <<running, last_run_date, scheduler, daily_posts, post_tweet_calls, returned, _read_call_count, dry_run, result, db_faulty, last_call>>

\* Mention dicts as a caller may hand them to the loop of process_mentions:
\* the item of the feed, items with a blocked word in some case, one for
\* each intent of _analyze_intent, and one without its text.
TriageMentions ==
    {FeedItem(Head(TweetOrder)), [id |-> Head(TweetOrder), author_id |-> "A1", created_at |-> 0]}
    \cup {[id |-> Head(TweetOrder), author_id |-> a, text |-> t, created_at |-> 0] :
            a \in Authors,
            t \in {<<"S", "P", "A", "M">>, <<"a", " ", "B", "o", "t", "?">>, <<"s", "c", "a", "m", "m", "e", "r">>, <<"F", "a", "i", "t", "h">>,
                   <<"W", "h", "i", "c", "h", " ", "v", "e", "r", "s", "e", "?">>, <<"I", " ", "f", "e", "e", "l", " ", "l", "o", "s", "t">>, <<"T", "h", "a", "n", "k", " ", "y", "o", "u">>, <<"H", "o", "w", " ", "s", "o">>}}

\* One iteration of the loop of process_mentions on a mention dict.
TriageMention ==
    /\ pc = "idle"
    /\ steps < MaxSteps
    /\ \E mention \in TriageMentions, read_ok \in OkSet, store_ok \in OkSet, update_ok \in OkSet :
      LET id == mention.id
          should == _should_respond_to_mention("handler", interactions, users,
                                               mention, now, read_ok)
      IN
      \E answer \in IF should THEN GeneratorAnswers ELSE {RAISE} :
      \E pub \in IF should /\ ~dry_run THEN {"ok", "fail"} ELSE {"ok"} :
        LET r == IF should
                 THEN _process_single_mention(interactions, users, mention, answer, pub,
                                              dry_run, now, store_ok, update_ok)
                 ELSE [db |-> interactions, ut |-> users, success |-> FALSE,
                       response |-> << >>, reply_id |-> NULL, publish |-> FALSE]
        IN  /\ interactions' = r.db
            /\ users' = r.ut
            /\ publish_calls' = IF r.publish /\ ~dry_run
                                THEN [publish_calls EXCEPT ![id] = @ + 1] ELSE publish_calls
            /\ failed_attempts' = IF should /\ ~r.success THEN failed_attempts \cup {id}
                                  ELSE failed_attempts
            /\ acted' = IF should THEN acted \cup {id} ELSE acted
            /\ last' = [op |-> "mention", id |-> id, at |-> now,
                        author_last |-> LastInteractionOf(users, mention.author_id),
                        prev |-> interactions[id],
                        prev_failed |-> id \in failed_attempts,
                        answer |-> IF should THEN answer ELSE << >>,
                        should |-> should,
                        publish |-> r.publish,
                        reply_id |-> r.reply_id,
                        success |-> r.success,
                        outcome_write_ok |-> ~should \/ update_ok,
                        processed_count |-> last.processed_count
                                            + IF should /\ r.success THEN 1 ELSE 0]
            /\ returned' = [op |-> "_should_respond_to_mention", text |-> << >>,
                            source |-> mention, ceiling |-> 0, value |-> should]
            /\ now' = now + SleepBetweenMentions
            /\ steps' = steps + 1
            /\ UNCHANGED <<running, last_run_date, scheduler, daily_posts, post_tweet_calls, _read_call_count, dry_run, result, db_faulty, last_call, pc, unprocessed_mentions, has_responded_impl>>

\* ---------------------------------------------------------- keyword search
TwitterCharLimit == 280

\* The verse the content lookup returned for the detected mood.
Verse == [text |-> <<"J", "e", "s", "u", "s", " ", "w", "e", "p", "t", ".">>, reference |-> <<"J", "o", "h", "n", " ", "1", "1", ":", "3", "5">>, version |-> <<"E", "S", "V">>]
\* What the text-generation service may answer to the prayer-response prompt.
PrayerAnswers == {<<"P", "r", "a", "y", "i", "n", "g", " ", "f", "o", "r", " ", "y", "o", "u", ".">>, << >>, RAISE}
\* What the selection classifier may answer: JSON naming an id, JSON naming
\* null, text that is not JSON, or calling it raises.
SelectionAnswers == TweetIds \cup {NULL, "malformed", "raise"}

\* AIResponseGenerator._ai_generate_response
_ai_generate_response(answer, bible_verse) ==
    IF answer = RAISE
    THEN <<"*", " ", "\"">> \o bible_verse.text \o <<"\"", " ", "-", " ">> \o bible_verse.reference
         \o <<" ", "(">> \o bible_verse.version \o <<")">>
    ELSE LET generated == StripChars(strip(answer), QuoteChars)
         IN  IF Len(generated) > TwitterCharLimit
             THEN SubSeq(generated, 1, TwitterCharLimit - 3) \o <<".", ".", ".">>
             ELSE generated

\* AIResponseGenerator._fallback_keyword_selection: << >> (None) or the id of
\* the first of the candidates of _filter_response_candidates, which are
\* sorted by _score_tweet_candidacy, highest first, equal scores in the
\* order of the batch.
_fallback_keyword_selection(tweets) ==
    LET spiritual_keywords == {<<"p", "r", "a", "y">>, <<"p", "r", "a", "y", "e", "r">>, <<"p", "r", "a", "y", "e", "r", "s">>, <<"p", "r", "a", "y", "i", "n", "g">>, <<"p", "r", "a", "y", " ", "f", "o", "r", " ", "m", "e">>, <<"n", "e", "e", "d", " ", "p", "r", "a", "y", "e", "r">>, <<"s", "t", "r", "u", "g", "g", "l", "i", "n", "g">>, <<"d", "i", "f", "f", "i", "c", "u", "l", "t", " ", "t", "i", "m", "e">>, <<"h", "a", "r", "d", " ", "t", "i", "m", "e">>, <<"d", "e", "p", "r", "e", "s", "s", "e", "d">>, <<"a", "n", "x", "i", "o", "u", "s">>, <<"w", "o", "r", "r", "i", "e", "d">>, <<"s", "c", "a", "r", "e", "d">>, <<"h", "u", "r", "t">>, <<"p", "a", "i", "n">>, <<"l", "o", "s", "t">>, <<"c", "o", "n", "f", "u", "s", "e", "d">>, <<"b", "r", "o", "k", "e", "n">>, <<"h", "o", "p", "e", "l", "e", "s", "s">>, <<"a", "l", "o", "n", "e">>, <<"l", "o", "n", "e", "l", "y">>, <<"s", "t", "r", "e", "s", "s", "e", "d">>, <<"o", "v", "e", "r", "w", "h", "e", "l", "m", "e", "d">>, <<"g", "o", "d">>, <<"l", "o", "r", "d">>, <<"j", "e", "s", "u", "s">>, <<"f", "a", "i", "t", "h">>, <<"b", "i", "b", "l", "e">>, <<"c", "h", "u", "r", "c", "h">>, <<"c", "h", "r", "i", "s", "t", "i", "a", "n">>, <<"b", "l", "e", "s", "s", "e", "d">>, <<"b", "l", "e", "s", "s", "i", "n", "g">>, <<"m", "i", "r", "a", "c", "l", "e">>, <<"g", "r", "a", "c", "e">>, <<"f", "o", "r", "g", "i", "v", "e", "n", "e", "s", "s">>, <<"f", "u", "n", "e", "r", "a", "l">>, <<"p", "a", "s", "s", "e", "d", " ", "a", "w", "a", "y">>, <<"d", "i", "e", "d">>, <<"i", "l", "l", "n", "e", "s", "s">>, <<"s", "i", "c", "k">>, <<"s", "u", "r", "g", "e", "r", "y">>, <<"j", "o", "b", " ", "l", "o", "s", "s">>, <<"u", "n", "e", "m", "p", "l", "o", "y", "e", "d">>, <<"d", "i", "v", "o", "r", "c", "e">>, <<"b", "r", "e", "a", "k", "u", "p">>, <<"f", "a", "m", "i", "l", "y", " ", "p", "r", "o", "b", "l", "e", "m", "s">>, <<"g", "r", "a", "t", "e", "f", "u", "l">>, <<"t", "h", "a", "n", "k", "f", "u", "l">>, <<"p", "r", "a", "i", "s", "e">>, <<"a", "m", "a", "z", "i", "n", "g", " ", "g", "r", "a", "c", "e">>, <<"t", "e", "s", "t", "i", "m", "o", "n", "y">>}
        avoid_keywords == {<<"p", "o", "l", "i", "t", "i", "c", "s">>, <<"p", "o", "l", "i", "t", "i", "c", "a", "l">>, <<"d", "e", "m", "o", "c", "r", "a", "t">>, <<"r", "e", "p", "u", "b", "l", "i", "c", "a", "n">>, <<"v", "o", "t", "e">>, <<"e", "l", "e", "c", "t", "i", "o", "n">>, <<"c", "r", "y", "p", "t", "o">>, <<"b", "i", "t", "c", "o", "i", "n">>, <<"n", "f", "t">>, <<"t", "r", "a", "d", "i", "n", "g">>, <<"i", "n", "v", "e", "s", "t", "m", "e", "n", "t">>, <<"p", "r", "o", "m", "o", "t", "i", "o", "n">>, <<"f", "o", "l", "l", "o", "w", " ", "m", "e">>, <<"c", "h", "e", "c", "k", " ", "o", "u", "t">>, <<"l", "i", "n", "k", " ", "i", "n", " ", "b", "i", "o">>, <<"s", "p", "a", "m">>, <<"s", "c", "a", "m">>, <<"h", "a", "t", "e">>, <<"a", "n", "g", "r", "y">>, <<"s", "t", "u", "p", "i", "d">>, <<"i", "d", "i", "o", "t">>, <<"d", "u", "m", "b">>}
        emotional_indicators == {<<"f", "e", "e", "l", "i", "n", "g">>, <<"f", "e", "e", "l">>, <<"n", "e", "e", "d">>, <<"h", "e", "l", "p">>, <<"w", "h", "y">>, <<"h", "o", "w">>}
        high_priority == {<<"p", "r", "a", "y", " ", "f", "o", "r", " ", "m", "e">>, <<"n", "e", "e", "d", " ", "p", "r", "a", "y", "e", "r">>, <<"p", "r", "a", "y", "e", "r", " ", "r", "e", "q", "u", "e", "s", "t">>, <<"s", "t", "r", "u", "g", "g", "l", "i", "n", "g">>, <<"d", "e", "p", "r", "e", "s", "s", "e", "d">>, <<"a", "n", "x", "i", "o", "u", "s">>, <<"l", "o", "s", "t">>, <<"b", "r", "o", "k", "e", "n">>, <<"h", "o", "p", "e", "l", "e", "s", "s">>}
        medium_priority == {<<"p", "r", "a", "y">>, <<"p", "r", "a", "y", "e", "r">>, <<"g", "o", "d">>, <<"h", "e", "l", "p">>, <<"d", "i", "f", "f", "i", "c", "u", "l", "t">>, <<"h", "u", "r", "t">>}
        low_priority == {<<"f", "e", "e", "l", "i", "n", "g">>, <<"w", "h", "y">>, <<"h", "o", "w">>, <<"c", "o", "n", "f", "u", "s", "e", "d">>, <<"s", "c", "a", "r", "e", "d">>}
        text(id) == FeedItem(id).text
        Hits(words, id) == Cardinality({w \in words : Contains(lower(text(id)), w)})
        score(id) == 5 * Hits(high_priority, id) + 3 * Hits(medium_priority, id)
                     + Hits(low_priority, id)
                     + (IF Contains(text(id), <<"?">>) THEN 2 ELSE 0)
        candidate(id) == /\ ~StartsWith(text(id), <<"R", "T", " ", "@">>)
                         /\ Hits(avoid_keywords, id) = 0
                         /\ \/ Hits(spiritual_keywords, id) > 0
                            \/ Contains(text(id), <<"?">>)
                            \/ Hits(emotional_indicators, id) > 0
        candidates == SelectSeq(tweets, candidate)
        best == CHOOSE i \in 1..Len(candidates) :
                    \A j \in 1..Len(candidates) :
                        \/ score(candidates[i]) > score(candidates[j])
                        \/ score(candidates[i]) = score(candidates[j]) /\ i <= j
    IN  IF candidates = << >> THEN << >> ELSE <<candidates[best]>>

\* A selector that hands back every tweet of the batch instead of one.
select_every_tweet(tweets, sel, verse_ok, answer) ==
    [i \in 1..Len(tweets) |->
        [id |-> tweets[i], response_text |-> _ai_generate_response(RAISE, Verse)]]

\* AIResponseGenerator.select_and_respond_to_tweet: << >> (None) or one result.
select_and_respond_to_tweet(tweets, sel, verse_ok, answer) ==
    LET matching == SelectSeq(tweets, LAMBDA id : id = sel)
        response_text == _ai_generate_response(answer, Verse)
    IN  IF tweets = << >> \/ matching = << >> THEN << >>
        ELSE IF ~verse_ok THEN << >>
        ELSE IF response_text = << >> THEN << >>
        ELSE <<[id |-> Head(matching), response_text |-> response_text]>>

\* Steps 4 and 5 of InChristAI._search_and_respond_to_prayers for a selection.
\* dry is the handler's dry_run argument (the scheduled job passes the
\* process's flag, run_once passes nothing); api_dry is the flag of the
\* TwitterAPI object.
RespondToSelection(db, ut, selected, pub, dry, api_dry, t, read_ok, record_ok) ==
    LET tweet == FeedItem(selected.id)
        reply_id == reply_to_tweet(api_dry, tweet.id, pub)
    IN  IF _has_responded_to_tweet_db_only(db, tweet.id, read_ok)
        THEN [db |-> db, ut |-> ut, publish |-> FALSE, reply_id |-> NULL, success |-> TRUE]
        ELSE IF dry
        THEN [db |-> db, ut |-> ut, publish |-> FALSE, reply_id |-> NULL, success |-> TRUE]
        ELSE IF reply_id # NULL
        THEN [db |-> RecordInteractionRow(db, tweet, selected.response_text, reply_id, t, record_ok),
              ut |-> UpsertUser(ut, tweet.author_id, t, record_ok),
              publish |-> TRUE, reply_id |-> reply_id, success |-> TRUE]
        ELSE [db |-> db, ut |-> ut, publish |-> TRUE, reply_id |-> NULL, success |-> FALSE]

\* _search_and_respond_to_prayers, steps 1 and 2: search, then select.
SearchPrayers ==
    /\ pc = "idle"
    /\ steps < MaxSteps
    /\ \E http \in HttpOutcomes, batch \in SearchBatches :
       LET r == search_tweets(http, batch, _read_call_count) IN
       \E sel \in IF r.tweets = << >> THEN {NULL} ELSE SelectionAnswers :
       \E verse_ok \in IF sel \in Range(r.tweets) THEN BOOLEAN ELSE {TRUE} :
       \E answer \in IF sel \in Range(r.tweets) /\ verse_ok THEN PrayerAnswers ELSE {RAISE} :
        LET chosen == select_and_respond_to_tweet(r.tweets, sel, verse_ok, answer)
        IN  /\ steps' = steps + 1
            /\ _read_call_count' = r.count
            /\ result' = chosen
            /\ pc' = IF chosen = << >> THEN "idle" ELSE "respond"
            /\ acted' = {}
            /\ last' = NoStep
            /\ last_call' = [op |-> "search_tweets",
                             counted |-> r.count - _read_call_count,
                             issued |-> r.issued,
                             http |-> http, items |-> Len(r.tweets)]
            /\ UNCHANGED <<running, last_run_date, scheduler, daily_posts, post_tweet_calls, returned, interactions, users, now, dry_run, unprocessed_mentions,
                           has_responded_impl, db_faulty,
                           publish_calls, failed_attempts>>

\* _search_and_respond_to_prayers, steps 4 and 5, for the selection.
RespondToPrayer ==
    /\ pc = "respond"
    /\ \E pub \in IF dry_run THEN {"ok"} ELSE {"ok", "fail"},
          dry_arg \in IF dry_run THEN BOOLEAN ELSE {FALSE},
          read_ok \in OkSet, record_ok \in OkSet :
        LET selected == Head(result)
            id == selected.id
            r == RespondToSelection(interactions, users, selected, pub, dry_arg, dry_run,
                                    now, read_ok, record_ok)
            rest == Tail(result)
        IN  /\ interactions' = r.db
            /\ users' = r.ut
            /\ publish_calls' = IF r.publish /\ ~dry_run
                                THEN [publish_calls EXCEPT ![id] = @ + 1]
                                ELSE publish_calls
            /\ failed_attempts' = IF ~r.success THEN failed_attempts \cup {id}
                                  ELSE failed_attempts
            /\ acted' = IF r.publish THEN acted \cup {id} ELSE acted
            /\ last' = [op |-> "prayer", id |-> id, at |-> now,
                        author_last |-> LastInteractionOf(users, FeedItem(id).author_id),
                        prev |-> interactions[id],
                        prev_failed |-> id \in failed_attempts,
                        answer |-> << >>,
                        should |-> r.publish,
                        publish |-> r.publish,
                        reply_id |-> r.reply_id,
                        success |-> r.success,
                        outcome_write_ok |-> r.reply_id = NULL \/ record_ok,
                        processed_count |-> 0]
            /\ result' = rest
            /\ pc' = IF rest = << >> THEN "idle" ELSE "respond"
            /\ UNCHANGED <<running, last_run_date, scheduler, daily_posts, post_tweet_calls, returned, _read_call_count, now, dry_run, unprocessed_mentions,
                           has_responded_impl, db_faulty, last_call>>
            /\ steps' = steps + 1

\* ------------------------------------------------------- clock and process
TickSteps == {60}

\* Time passing between two scheduled jobs.
Tick ==
    \E d \in TickSteps :
        /\ pc = "idle"
        /\ now + d <= MaxNow
        /\ now' = now + d
        /\ last' = NoStep
        /\ UNCHANGED <<running, last_run_date, scheduler, daily_posts, post_tweet_calls, returned, interactions, users, _read_call_count, dry_run, pc,
                       unprocessed_mentions, has_responded_impl,
                       result, db_faulty, steps, publish_calls, failed_attempts,
                       acted, last_call>>

\* The process is restarted: everything in memory is lost, the tables stay.
Restart ==
    /\ _read_call_count > 0 \/ pc # "idle"
    /\ _read_call_count' = 0
    /\ pc' = "idle"
    /\ unprocessed_mentions' = << >>
    /\ has_responded_impl' = "handler"
    /\ result' = << >>
    /\ acted' = {}
    /\ last_call' = NoCall
    /\ last' = NoStep
    /\ UNCHANGED <<running, last_run_date, scheduler, daily_posts, post_tweet_calls, returned, interactions, users, now, dry_run, db_faulty, steps,
                   publish_calls, failed_attempts>>

Init ==
    /\ interactions = [id \in TweetIds |-> << >>]
    /\ users = [a \in Authors |-> << >>]
    /\ _read_call_count = 0
    /\ now = 0
    /\ dry_run \in BOOLEAN
    /\ pc = "idle"
    /\ unprocessed_mentions = << >>
    /\ has_responded_impl = "handler"
    /\ result = << >>
    /\ db_faulty = FALSE
    /\ steps = 0
    /\ publish_calls = [id \in TweetIds |-> 0]
    /\ failed_attempts = {}
    /\ acted = {}
    /\ last_call = NoCall
    /\ last = NoStep
    /\ daily_posts = << >>
    /\ post_tweet_calls = << >>
    /\ returned = NoReturn
    /\ running = FALSE
    /\ last_run_date = NoTime
    /\ scheduler = NoLoop

Next ==
    \/ GetMentions
    \/ ProcessMention
    \/ SearchPrayers
    \/ RespondToPrayer
    \/ Tick

Spec == Init /\ [][Next]_vars

\* ------------------------------------------- a ledger late in a busy hour
\* Items of earlier cycles of this hour, already answered.
EarlierOrder == <<"B01", "B02", "B03", "B04", "B05", "B06", "B07", "B08", "B09", "B10", "B11", "B12", "B13", "B14", "B15", "B16", "B17", "B18", "B19", "B20", "B21", "B22", "B23", "B24", "B25", "B26", "B27", "B28", "B29", "B30">>
EarlierRow(id) == [user_id |-> "A0",
                   response_text |-> <<"G", "o", "d", " ", "b", "l", "e", "s", "s", " ", "y", "o", "u", ".">>,
                   response_tweet_id |-> ReplyId(id),
                   created_at |-> 0,
                   responded_at |-> 0,
                   interaction_type |-> "mention",
                   status |-> "completed"]

\* The process at the start of a cycle with max_responses_per_hour - 1 or
\* max_responses_per_hour rows completed within the last hour.
InitHourly ==
    /\ \E n \in {max_responses_per_hour - 1, max_responses_per_hour} :
         interactions = [id \in TweetIds \cup Range(EarlierOrder) |->
                            IF id \in Range(SubSeq(EarlierOrder, 1, n))
                            THEN <<EarlierRow(id)>> ELSE << >>]
    /\ users = [a \in Authors |-> << >>]
    /\ _read_call_count = 0
    /\ now = 0
    /\ dry_run \in BOOLEAN
    /\ pc = "idle"
    /\ unprocessed_mentions = << >>
    /\ has_responded_impl = "handler"
    /\ result = << >>
    /\ db_faulty = FALSE
    /\ steps = 0
    /\ publish_calls = [id \in TweetIds |-> 0]
    /\ failed_attempts = {}
    /\ acted = {}
    /\ last_call = NoCall
    /\ last = NoStep
    /\ daily_posts = << >>
    /\ post_tweet_calls = << >>
    /\ returned = NoReturn
    /\ running = FALSE
    /\ last_run_date = NoTime
    /\ scheduler = NoLoop

SpecHourly == InitHourly /\ [][Next]_vars

\* ------------------------------------------------ the read counter, alone
\* What is left unchanged by a call on the TwitterAPI object.
QuotaFrame == <<running, last_run_date, scheduler, daily_posts, post_tweet_calls, returned, interactions, users, now, dry_run, pc, unprocessed_mentions,
                has_responded_impl, result, db_faulty, steps, publish_calls,
                failed_attempts, acted, last>>

\* A call of TwitterAPI.get_mentions.
QuotaGetMentions ==
    /\ _read_call_count < MaxQuotaCalls
    /\ \E http \in HttpOutcomes, batch \in {<< >>, <<"T1">>} :
       \E tw \in IF http \in {"500", "raise"} THEN TweepyOutcomes ELSE {"v1_ok"} :
        LET r == get_mentions(http, tw, batch, _read_call_count)
        IN  /\ _read_call_count' = r.count
            /\ last_call' = [op |-> "get_mentions",
                             counted |-> r.count - _read_call_count,
                             issued |-> r.issued,
                             http |-> http, items |-> Len(r.mentions)]
    /\ UNCHANGED QuotaFrame

\* A call of TwitterAPI.search_tweets.
QuotaSearchTweets ==
    /\ _read_call_count < MaxQuotaCalls
    /\ \E http \in HttpOutcomes, batch \in {<< >>, <<"T1">>} :
        LET r == search_tweets(http, batch, _read_call_count)
        IN  /\ _read_call_count' = r.count
            /\ last_call' = [op |-> "search_tweets",
                             counted |-> r.count - _read_call_count,
                             issued |-> r.issued,
                             http |-> http, items |-> Len(r.tweets)]
    /\ UNCHANGED QuotaFrame

\* A call of TwitterAPI.get_original_tweet.
QuotaGetOriginalTweet ==
    /\ _read_call_count < MaxQuotaCalls
    /\ LET r == get_original_tweet(_read_call_count)
       IN  /\ _read_call_count' = r.count
           /\ last_call' = [op |-> "get_original_tweet",
                            counted |-> r.count - _read_call_count,
                            issued |-> r.issued,
                            http |-> "none", items |-> 0]
    /\ UNCHANGED QuotaFrame

\* A call of TwitterAPI.get_thread_context.
QuotaGetThreadContext ==
    /\ _read_call_count < MaxQuotaCalls
    /\ LET r == get_thread_context(_read_call_count)
       IN  /\ _read_call_count' = r.count
           /\ last_call' = [op |-> "get_thread_context",
                            counted |-> r.count - _read_call_count,
                            issued |-> r.issued,
                            http |-> "none", items |-> 0]
    /\ UNCHANGED QuotaFrame

NextQuota ==
    \/ QuotaGetMentions
    \/ QuotaSearchTweets
    \/ QuotaGetOriginalTweet
    \/ QuotaGetThreadContext
    \/ Restart

SpecQuota == Init /\ [][NextQuota]_vars

\* ------------------------------------------------------------- properties
DuplicateChecks == {"handler", "db_only"}
RowOf(id) == interactions[id][1]

\* C1 (idempotent suppression): a mention whose ledger row is already
\* completed, whatever its first outcome was (a posted reply or NO_REPLY), is
\* treated as handled by the next sweep: the generator is not asked again and
\* no new outcome is written.
C1_IdempotentSuppression ==
    (last.op = "mention" /\ Len(last.prev) > 0 /\ last.prev[1].status = "completed")
        => ~last.should

\* C2 (hasHandled): the duplicate check answers true for an item exactly when
\* the ledger holds a row for it whose response text is non-null or whose
\* status is completed.
C2_HasHandledPredicate ==
    \A id \in TweetIds, impl \in DuplicateChecks :
        HasResponded(impl, interactions, id, TRUE)
            <=> /\ Len(interactions[id]) > 0
                /\ \/ RowOf(id).response_text # NullText
                   \/ RowOf(id).status = "completed"

\* C3 (at-most-once reply): with storage reliable, the real reply operation is
\* invoked at most once for any inbound item id.
C3_AtMostOncePublish == \A id \in TweetIds : publish_calls[id] <= 1

\* C4 (quota monotonicity): the read counter grows by exactly one for each
\* remote read a feed call issues, fallback reads included.
C4_CountsEveryRemoteRead == last_call.counted = last_call.issued

\* C5 as stated (budget never exceeded): the reads counted never exceed the
\* monthly limit and the remaining budget is never negative.
C5_WithinBudget ==
    /\ _read_call_count <= _read_call_limit
    /\ get_read_call_count.remaining >= 0

\* C5 as the code has it: the limit is advisory. A read is issued and counted
\* whatever the counter's value, at or beyond the limit too: a call of
\* get_original_tweet adds one and a call of get_thread_context adds two.
C5_BudgetIsAdvisory ==
    [][/\ last_call'.op = "get_original_tweet" => _read_call_count' = _read_call_count + 1
       /\ last_call'.op = "get_thread_context" => _read_call_count' = _read_call_count + 2]_vars

\* A read counted beyond the limit: the remaining budget is negative.
C5_OverBudgetReached ==
    /\ last_call.op = "get_original_tweet"
    /\ _read_call_count > _read_call_limit
    /\ get_read_call_count.remaining < 0

\* C6 (NO_REPLY passthrough): when the generator declines a mention, no reply
\* is published and the mention's row ends completed, with the sentinel text
\* "NO_REPLY" as response text and no response tweet id.
C6_NoReplyPassthrough ==
    (last.op = "mention" /\ last.should /\ upper(strip(last.answer)) = NO_REPLY)
        => /\ ~last.publish
           /\ last.reply_id = NULL
           /\ Len(interactions[last.id]) > 0
           /\ RowOf(last.id).status = "completed"
           /\ RowOf(last.id).response_text = NO_REPLY
           /\ RowOf(last.id).response_tweet_id = NULL

\* A mention the generator declined, in a run that would really publish.
C6_DeclinedMentionReached ==
    /\ ~dry_run
    /\ last.op = "mention" /\ last.should /\ last.answer = NO_REPLY
    /\ RowOf(last.id).status = "completed"
    /\ publish_calls[last.id] = 0

C8_FailedNeverRetried == last.prev_failed => ~last.should

\* C9 (ledger lifecycle): once the attempt for a mention has resolved, its row
\* is completed or failed; it is not left pending.
C9_NoRowLeftPending ==
    (last.op = "mention" /\ last.should)
        => /\ Len(interactions[last.id]) > 0
           /\ RowOf(last.id).status \in {"completed", "failed"}

\* C10 (cooldown): a mention whose author interacted less than
\* response_cooldown seconds ago is excluded.
C10_CooldownExcludes ==
    (last.op = "mention" /\ last.author_last # NoTime
        /\ last.at - last.author_last < response_cooldown)
        => ~last.should

\* ------------------------------------------------- the composers, alone
\* DailyPoster._format_verse_only_tweet
_format_verse_only_tweet(verse_data) ==
    LET reference == verse_data.reference
        text == verse_data.text
        version == verse_data.version
        attribution == reference \o <<" ", "(">> \o version \o <<")">>
        tweet_options ==
            << <<"\"">> \o text \o <<"\"", "\n", "\n">> \o attribution,
               <<"\"">> \o text \o <<"\"", "\n", "\n">> \o attribution
                     \o <<"\n", "\n">> \o <<"#", "B", "i", "b", "l", "e", "V", "e", "r", "s", "e", " ", "#", "F", "a", "i", "t", "h">>,
               <<"\"">> \o text \o <<"\"", "\n", "\n">> \o <<"-", " ">> \o attribution >>
        fitting == {i \in 1..Len(tweet_options) : Len(tweet_options[i]) <= TwitterCharLimit}
        max_text_length == TwitterCharLimit - Len(<<"\"", "\n", "\n">> \o attribution)
    IN  IF fitting # {}
        THEN tweet_options[CHOOSE i \in fitting : \A j \in fitting : i <= j]
        ELSE IF max_text_length > 50
        THEN LET cut == IF max_text_length - 3 < Len(text) THEN max_text_length - 3 ELSE Len(text)
                 truncated_text == SubSeq(text, 1, cut) \o <<".", ".", ".">>
             IN  <<"\"">> \o truncated_text \o <<"\"", "\n", "\n">> \o attribution
        ELSE attribution

\* The texts handed to the composers: a run of letters of any length up to
\* MaxTextLen, the same with one sentence break, and every short text of
\* letters, full stops and blanks, bare or wrapped in quotes.
ComposerTexts ==
    {[i \in 1..n |-> "a"] : n \in 0..MaxTextLen}
    \cup {[i \in 1..n |-> "a"] \o <<".", " ">> \o [i \in 1..(MaxTextLen - n) |-> "b"] : n \in 0..MaxTextLen}
    \cup UNION {[1..k -> {"a", ".", " "}] : k \in 0..MaxShortLen}
    \cup UNION {{<<"\"">> \o t \o <<"\"">> : t \in [1..k -> {"a", ".", " "}]} : k \in 0..MaxShortLen}
ComposerFrame == <<running, last_run_date, scheduler, interactions, users, _read_call_count, now, dry_run, pc,
                   unprocessed_mentions, has_responded_impl, result, db_faulty, steps,
                   publish_calls, failed_attempts, acted, last_call, last, daily_posts,
                   post_tweet_calls>>

\* A call of DailyPoster._format_verse_only_tweet.
FormatVerseOnlyTweet ==
    /\ returned' = [op |-> "_format_verse_only_tweet", text |-> returned.text,
                    source |-> returned.text,
                    ceiling |-> TwitterCharLimit,
                    value |-> _format_verse_only_tweet([Verse EXCEPT !.text = returned.text])]
    /\ UNCHANGED ComposerFrame

\* A call of AIResponseGenerator.generate_response: the service answers with
\* the text, or calling it raises.
GenerateResponse ==
    /\ \E id \in TweetIds, answer \in {returned.text, RAISE} :
         returned' = [op |-> "generate_response", text |-> returned.text,
                      source |-> IF answer = RAISE THEN _get_fallback_response(FeedItem(id).text)
                                 ELSE answer,
                      ceiling |-> max_response_length,
                      value |-> generate_response(FeedItem(id).text, answer)]
    /\ UNCHANGED ComposerFrame

\* A call of AIResponseGenerator._ai_generate_response: the service answers
\* with the text, or calling it raises and the verse (here with the text as
\* its wording) is sent alone.
AiGenerateResponse ==
    /\ \E raises \in BOOLEAN :
         returned' = [op |-> "_ai_generate_response", text |-> returned.text,
                      source |-> returned.text,
                      ceiling |-> TwitterCharLimit,
                      value |-> IF raises
                                THEN _ai_generate_response(RAISE, [Verse EXCEPT !.text = returned.text])
                                ELSE _ai_generate_response(returned.text, Verse)]
    /\ UNCHANGED ComposerFrame

\* A call of AIResponseGenerator._format_response under a ceiling a
\* deployment may configure (MAX_RESPONSE_LENGTH); short texts are composed
\* under short ceilings.
FormatResponseCall ==
    /\ \E ceiling \in IF Len(returned.text) <= MaxShortLen + 2 THEN 3..MaxShortLen
                       ELSE {max_response_length, TwitterCharLimit} :
         returned' = [op |-> "_format_response", text |-> returned.text,
                      source |-> returned.text,
                      ceiling |-> ceiling,
                      value |-> FormatResponse(returned.text, ceiling)]
    /\ UNCHANGED ComposerFrame

\* BibleAPI.get_available_moods
available_moods == {"afraid", "anxious", "lonely", "sad", "angry", "confused",
                    "discouraged", "guilty", "stressed", "hopeless", "grateful", "jealous"}

\* What the mood classifier may answer: calling it raises; the content is not
\* JSON; the content is JSON but not an object; or it is an object, with or
\* without the key detected_mood, whose value may be any label or null.
ClassifierAnswers ==
    {[kind |-> k, has_label |-> FALSE, label |-> NULL] : k \in {"raise", "not_json", "not_object", "object"}}
    \cup {[kind |-> "object", has_label |-> TRUE, label |-> l] :
             l \in available_moods \cup {"happy", "SAD", "", NULL}}

\* A mood step that hands on whatever label the classifier gave.
determine_mood_unvalidated(answer) ==
    IF answer.kind = "object" /\ answer.has_label THEN answer.label ELSE "sad"

\* AIResponseGenerator._ai_determine_mood
_ai_determine_mood(answer) ==
    IF answer.kind = "raise" THEN "sad"               \* except Exception
    ELSE IF answer.kind = "not_json" THEN "sad"       \* except json.JSONDecodeError
    ELSE IF answer.kind = "not_object" THEN "sad"     \* result.get raises: except Exception
    ELSE LET detected_mood == IF answer.has_label THEN answer.label ELSE "sad"
         IN  IF detected_mood \notin available_moods THEN "sad" ELSE detected_mood

\* A call of AIResponseGenerator._ai_determine_mood.  The tweet's text goes
\* to the classifier only, so the call is made for one text.
\* AIResponseGenerator._score_tweet_candidacy
_score_tweet_candidacy_light_bonus(tweet) ==
    LET text_lower == lower(tweet.text)
        high_priority == {<<"p", "r", "a", "y", " ", "f", "o", "r", " ", "m", "e">>, <<"n", "e", "e", "d", " ", "p", "r", "a", "y", "e", "r">>, <<"p", "r", "a", "y", "e", "r", " ", "r", "e", "q", "u", "e", "s", "t">>, <<"s", "t", "r", "u", "g", "g", "l", "i", "n", "g">>, <<"d", "e", "p", "r", "e", "s", "s", "e", "d">>, <<"a", "n", "x", "i", "o", "u", "s">>, <<"l", "o", "s", "t">>, <<"b", "r", "o", "k", "e", "n">>, <<"h", "o", "p", "e", "l", "e", "s", "s">>}
        medium_priority == {<<"p", "r", "a", "y">>, <<"p", "r", "a", "y", "e", "r">>, <<"g", "o", "d">>, <<"h", "e", "l", "p">>, <<"d", "i", "f", "f", "i", "c", "u", "l", "t">>, <<"h", "u", "r", "t">>}
        low_priority == {<<"f", "e", "e", "l", "i", "n", "g">>, <<"w", "h", "y">>, <<"h", "o", "w">>, <<"c", "o", "n", "f", "u", "s", "e", "d">>, <<"s", "c", "a", "r", "e", "d">>}
        Hits(words) == Cardinality({keyword \in words : Contains(text_lower, keyword)})
    IN  5 * Hits(high_priority) + 3 * Hits(medium_priority) + Hits(low_priority)
        + (IF Contains(tweet.text, <<"?">>) THEN 1 ELSE 0)

_score_tweet_candidacy(tweet) ==
    LET text_lower == lower(tweet.text)
        high_priority == {<<"p", "r", "a", "y", " ", "f", "o", "r", " ", "m", "e">>, <<"n", "e", "e", "d", " ", "p", "r", "a", "y", "e", "r">>, <<"p", "r", "a", "y", "e", "r", " ", "r", "e", "q", "u", "e", "s", "t">>, <<"s", "t", "r", "u", "g", "g", "l", "i", "n", "g">>, <<"d", "e", "p", "r", "e", "s", "s", "e", "d">>, <<"a", "n", "x", "i", "o", "u", "s">>, <<"l", "o", "s", "t">>, <<"b", "r", "o", "k", "e", "n">>, <<"h", "o", "p", "e", "l", "e", "s", "s">>}
        medium_priority == {<<"p", "r", "a", "y">>, <<"p", "r", "a", "y", "e", "r">>, <<"g", "o", "d">>, <<"h", "e", "l", "p">>, <<"d", "i", "f", "f", "i", "c", "u", "l", "t">>, <<"h", "u", "r", "t">>}
        low_priority == {<<"f", "e", "e", "l", "i", "n", "g">>, <<"w", "h", "y">>, <<"h", "o", "w">>, <<"c", "o", "n", "f", "u", "s", "e", "d">>, <<"s", "c", "a", "r", "e", "d">>}
        Hits(words) == Cardinality({keyword \in words : Contains(text_lower, keyword)})
    IN  5 * Hits(high_priority) + 3 * Hits(medium_priority) + Hits(low_priority)
        + (IF Contains(tweet.text, <<"?">>) THEN 2 ELSE 0)

\* AIResponseGenerator._filter_response_candidates: the candidates with their
\* candidate_score, sorted by it (list.sort with reverse=True is stable: equal
\* scores keep their order), the first five.
_filter_response_candidates(tweets) ==
    LET spiritual_keywords == {<<"p", "r", "a", "y">>, <<"p", "r", "a", "y", "e", "r">>, <<"p", "r", "a", "y", "e", "r", "s">>, <<"p", "r", "a", "y", "i", "n", "g">>, <<"p", "r", "a", "y", " ", "f", "o", "r", " ", "m", "e">>, <<"n", "e", "e", "d", " ", "p", "r", "a", "y", "e", "r">>, <<"s", "t", "r", "u", "g", "g", "l", "i", "n", "g">>, <<"d", "i", "f", "f", "i", "c", "u", "l", "t", " ", "t", "i", "m", "e">>, <<"h", "a", "r", "d", " ", "t", "i", "m", "e">>, <<"d", "e", "p", "r", "e", "s", "s", "e", "d">>, <<"a", "n", "x", "i", "o", "u", "s">>, <<"w", "o", "r", "r", "i", "e", "d">>, <<"s", "c", "a", "r", "e", "d">>, <<"h", "u", "r", "t">>, <<"p", "a", "i", "n">>, <<"l", "o", "s", "t">>, <<"c", "o", "n", "f", "u", "s", "e", "d">>, <<"b", "r", "o", "k", "e", "n">>, <<"h", "o", "p", "e", "l", "e", "s", "s">>, <<"a", "l", "o", "n", "e">>, <<"l", "o", "n", "e", "l", "y">>, <<"s", "t", "r", "e", "s", "s", "e", "d">>, <<"o", "v", "e", "r", "w", "h", "e", "l", "m", "e", "d">>, <<"g", "o", "d">>, <<"l", "o", "r", "d">>, <<"j", "e", "s", "u", "s">>, <<"f", "a", "i", "t", "h">>, <<"b", "i", "b", "l", "e">>, <<"c", "h", "u", "r", "c", "h">>, <<"c", "h", "r", "i", "s", "t", "i", "a", "n">>, <<"b", "l", "e", "s", "s", "e", "d">>, <<"b", "l", "e", "s", "s", "i", "n", "g">>, <<"m", "i", "r", "a", "c", "l", "e">>, <<"g", "r", "a", "c", "e">>, <<"f", "o", "r", "g", "i", "v", "e", "n", "e", "s", "s">>, <<"f", "u", "n", "e", "r", "a", "l">>, <<"p", "a", "s", "s", "e", "d", " ", "a", "w", "a", "y">>, <<"d", "i", "e", "d">>, <<"i", "l", "l", "n", "e", "s", "s">>, <<"s", "i", "c", "k">>, <<"s", "u", "r", "g", "e", "r", "y">>, <<"j", "o", "b", " ", "l", "o", "s", "s">>, <<"u", "n", "e", "m", "p", "l", "o", "y", "e", "d">>, <<"d", "i", "v", "o", "r", "c", "e">>, <<"b", "r", "e", "a", "k", "u", "p">>, <<"f", "a", "m", "i", "l", "y", " ", "p", "r", "o", "b", "l", "e", "m", "s">>, <<"g", "r", "a", "t", "e", "f", "u", "l">>, <<"t", "h", "a", "n", "k", "f", "u", "l">>, <<"p", "r", "a", "i", "s", "e">>, <<"a", "m", "a", "z", "i", "n", "g", " ", "g", "r", "a", "c", "e">>, <<"t", "e", "s", "t", "i", "m", "o", "n", "y">>}
        avoid_keywords == {<<"p", "o", "l", "i", "t", "i", "c", "s">>, <<"p", "o", "l", "i", "t", "i", "c", "a", "l">>, <<"d", "e", "m", "o", "c", "r", "a", "t">>, <<"r", "e", "p", "u", "b", "l", "i", "c", "a", "n">>, <<"v", "o", "t", "e">>, <<"e", "l", "e", "c", "t", "i", "o", "n">>, <<"c", "r", "y", "p", "t", "o">>, <<"b", "i", "t", "c", "o", "i", "n">>, <<"n", "f", "t">>, <<"t", "r", "a", "d", "i", "n", "g">>, <<"i", "n", "v", "e", "s", "t", "m", "e", "n", "t">>, <<"p", "r", "o", "m", "o", "t", "i", "o", "n">>, <<"f", "o", "l", "l", "o", "w", " ", "m", "e">>, <<"c", "h", "e", "c", "k", " ", "o", "u", "t">>, <<"l", "i", "n", "k", " ", "i", "n", " ", "b", "i", "o">>, <<"s", "p", "a", "m">>, <<"s", "c", "a", "m">>, <<"h", "a", "t", "e">>, <<"a", "n", "g", "r", "y">>, <<"s", "t", "u", "p", "i", "d">>, <<"i", "d", "i", "o", "t">>, <<"d", "u", "m", "b">>}
        emotional_indicators == {<<"f", "e", "e", "l", "i", "n", "g">>, <<"f", "e", "e", "l">>, <<"n", "e", "e", "d">>, <<"h", "e", "l", "p">>, <<"w", "h", "y">>, <<"h", "o", "w">>}
        candidate(tweet) ==
            LET text_lower == lower(tweet.text)
            IN  /\ ~StartsWith(tweet.text, <<"R", "T", " ", "@">>)
                /\ ~AnyIn(text_lower, avoid_keywords)
                /\ \/ AnyIn(text_lower, spiritual_keywords)
                   \/ Contains(tweet.text, <<"?">>)
                   \/ AnyIn(text_lower, emotional_indicators)
        scored(tweet) == [f \in DOMAIN tweet \cup {"candidate_score"} |->
                             IF f = "candidate_score" THEN _score_tweet_candidacy(tweet)
                             ELSE tweet[f]]
        kept == SelectSeq(tweets, candidate)
        candidates == [i \in 1..Len(kept) |-> scored(kept[i])]
        before(i) == {j \in 1..Len(candidates) :
                        \/ candidates[j].candidate_score > candidates[i].candidate_score
                        \/ /\ candidates[j].candidate_score = candidates[i].candidate_score
                           /\ j < i}
        sorted == [k \in 1..Len(candidates) |->
                      candidates[CHOOSE i \in 1..Len(candidates) : Cardinality(before(i)) = k - 1]]
    IN  SubSeq(sorted, 1, IF Len(sorted) < 5 THEN Len(sorted) ELSE 5)

\* Tweets of a search result, as dicts: requests for prayer, questions,
\* a retweet, one to avoid, one with nothing to go on.
SampleTweets ==
    << [id |-> "S1", text |-> <<"A", "m", "e", "n", "?">>],
       [id |-> "S2", text |-> <<"W", "h", "y", " ", "p", "r", "a", "y", "?">>],
       [id |-> "S3", text |-> <<"R", "T", " ", "@", "x", " ", "p", "r", "a", "y", " ", "f", "o", "r", " ", "m", "e">>],
       [id |-> "S4", text |-> <<"G", "o", "d", " ", "h", "e", "l", "p">>],
       [id |-> "S5", text |-> <<"P", "r", "a", "y", " ", "f", "o", "r", " ", "m", "e">>],
       [id |-> "S6", text |-> <<"v", "o", "t", "e", "?", " ", "p", "r", "a", "y">>],
       [id |-> "S7", text |-> <<"I", " ", "f", "e", "e", "l", " ", "L", "O", "S", "T">>],
       [id |-> "S8", text |-> <<"H", "e", "l", "l", "o">>],
       [id |-> "S9", text |-> <<"H", "o", "w", "?">>],
       [id |-> "S10", text |-> <<"s", "c", "a", "r", "e", "d", ",", " ", "c", "o", "n", "f", "u", "s", "e", "d">> ] >>

\* The first call of _filter_response_candidates, on some of the sample
\* tweets, in the order given or the other way round.
FilterCandidates ==
    /\ returned = NoReturn
    /\ \E picked \in SUBSET (1..Len(SampleTweets)), reversed \in BOOLEAN :
         LET chosen == SelectSeq(SampleTweets, LAMBDA t : \E i \in picked : SampleTweets[i] = t)
             tweets == IF reversed THEN [i \in 1..Len(chosen) |-> chosen[Len(chosen) + 1 - i]]
                       ELSE chosen
         IN  returned' = [op |-> "_filter_response_candidates", text |-> returned.text,
                          source |-> tweets, ceiling |-> 0,
                          value |-> _filter_response_candidates(tweets)]
    /\ UNCHANGED ComposerFrame

PublishedText_keeps_280(text) ==
    IF Len(text) > TwitterCharLimit
    THEN SubSeq(text, 1, TwitterCharLimit) \o <<".", ".", ".">>
    ELSE text

\* The first statement of post_tweet and of reply_to_tweet, before the
\* dry-run branch: the text that is then sent, or logged in a dry run.
PublishedText(text) ==
    IF Len(text) > TwitterCharLimit
    THEN SubSeq(text, 1, TwitterCharLimit - 3) \o <<".", ".", ".">>
    ELSE text

\* A call of post_tweet or reply_to_tweet with the text at hand.
PublishText ==
    /\ \E op \in {"post_tweet", "reply_to_tweet"} :
         returned' = [op |-> op, text |-> returned.text,
                      source |-> returned.text,
                      ceiling |-> TwitterCharLimit,
                      value |-> PublishedText(returned.text)]
    /\ UNCHANGED ComposerFrame

DetermineMood ==
    /\ returned.text = << >>
    /\ \E answer \in ClassifierAnswers :
         returned' = [op |-> "_ai_determine_mood", text |-> returned.text,
                      source |-> answer, ceiling |-> 0,
                      value |-> _ai_determine_mood(answer)]
    /\ UNCHANGED ComposerFrame

\* A call of AIResponseGenerator.select_and_respond_to_tweet with the tweets
\* a search returned.
SelectAndRespond ==
    /\ returned.text = << >>
    /\ \E tweets \in SearchBatches, sel \in SelectionAnswers, verse_ok \in BOOLEAN,
          answer \in PrayerAnswers :
         returned' = [op |-> "select_and_respond_to_tweet", text |-> returned.text,
                      source |-> [tweets |-> tweets, sel |-> sel,
                                  verse_ok |-> verse_ok, answer |-> answer],
                      ceiling |-> 0,
                      value |-> select_and_respond_to_tweet(tweets, sel, verse_ok, answer)]
    /\ UNCHANGED ComposerFrame

\* A composer about to be called with one of the texts.
InitComposer ==
    /\ interactions = [id \in TweetIds |-> << >>]
    /\ users = [a \in Authors |-> << >>]
    /\ _read_call_count = 0
    /\ now = 0
    /\ dry_run = FALSE
    /\ pc = "idle"
    /\ unprocessed_mentions = << >>
    /\ has_responded_impl = "handler"
    /\ result = << >>
    /\ db_faulty = FALSE
    /\ steps = 0
    /\ publish_calls = [id \in TweetIds |-> 0]
    /\ failed_attempts = {}
    /\ acted = {}
    /\ last_call = NoCall
    /\ last = NoStep
    /\ daily_posts = << >>
    /\ post_tweet_calls = << >>
    /\ returned \in {[NoReturn EXCEPT !.text = t] : t \in ComposerTexts}
    /\ running = FALSE
    /\ last_run_date = NoTime
    /\ scheduler = NoLoop

NextComposer ==
    \/ FormatVerseOnlyTweet
    \/ GenerateResponse
    \/ AiGenerateResponse
    \/ FormatResponseCall
    \/ DetermineMood
    \/ SelectAndRespond
    \/ PublishText

SpecComposer == InitComposer /\ [][NextComposer]_vars

\* A call of _filter_response_candidates on a search result.
SpecCandidates == InitComposer /\ [][FilterCandidates]_vars


\* -------------------------------------------------------- the daily post
SecondsPerDay == 86400
\* date.today()
today(t) == t \div SecondsPerDay

\* What _get_todays_verse may hand back: << >> (None) or a verse.
DailyVerses == {<< >>, <<Verse>>,
                <<[text |-> <<"G", "o", "d", " ", "i", "s", " ", "l", "o", "v", "e", ".">>, reference |-> <<"1", " ", "J", "o", "h", "n", " ", "4", ":", "8">>, version |-> <<"E", "S", "V">>]>>}

\* A check that never finds today's row.
has_posted_today_never(dp, d, read_ok) == FALSE

\* DailyPoster._has_posted_today
_has_posted_today(dp, d, read_ok) ==
    IF ~read_ok THEN FALSE
    ELSE \E i \in 1..Len(dp) : dp[i].date = d

\* A table without the UNIQUE constraint on date: every record is appended.
record_daily_post_appending(dp, d, verse_data, tweet_id, force, reply_id, t, write_ok) ==
    IF ~write_ok THEN dp
    ELSE Append(dp, [date |-> d, verse_reference |-> verse_data.reference,
                     verse_text |-> verse_data.text, tweet_id |-> tweet_id,
                     reply_tweet_id |-> reply_id, posted_at |-> t])

\* DailyPoster._record_daily_post.  date is UNIQUE: a plain INSERT for a date
\* that has a row raises, and the handler logs that and goes on.
_record_daily_post(dp, d, verse_data, tweet_id, force, reply_id, t, write_ok) ==
    LET row == [date |-> d, verse_reference |-> verse_data.reference,
                verse_text |-> verse_data.text, tweet_id |-> tweet_id,
                reply_tweet_id |-> reply_id, posted_at |-> t]
        conflict == \E i \in 1..Len(dp) : dp[i].date = d
    IN  IF ~write_ok THEN dp
        ELSE IF ~conflict THEN Append(dp, row)
        ELSE IF force THEN [i \in 1..Len(dp) |-> IF dp[i].date = d THEN row ELSE dp[i]]
        ELSE dp

\* TwitterAPI.post_tweet: the id of the new tweet, or NULL.
post_tweet(dry, t, n, outcome) ==
    IF dry THEN "dry_run_" \o ToString(t)
    ELSE IF outcome = "ok" THEN "tweet_" \o ToString(n)
    ELSE NULL

\* DailyPoster.post_daily_verse with _post_verse_with_reply (the two-tweet
\* format is the one in use): the table afterwards, the return value, and
\* whether a tweet went out.
post_daily_verse(dp, force, t, dry, n, todays_verse, post, reply, read_ok, write_ok) ==
    LET d == today(t)
        main_tweet_id == post_tweet(dry, t, n, post)
        reply_tweet_id == IF main_tweet_id = NULL THEN NULL
                          ELSE reply_to_tweet(dry, main_tweet_id, reply)
    IN  IF ~force /\ _has_posted_today(dp, d, read_ok)
        THEN [db |-> dp, value |-> TRUE, main_tweet_id |-> NULL]
        ELSE IF todays_verse = << >>
        THEN [db |-> dp, value |-> FALSE, main_tweet_id |-> NULL]
        ELSE IF main_tweet_id = NULL
        THEN [db |-> dp, value |-> FALSE, main_tweet_id |-> NULL]
        ELSE [db |-> _record_daily_post(dp, d, todays_verse[1], main_tweet_id, force,
                                        reply_tweet_id, t, write_ok),
              value |-> TRUE, main_tweet_id |-> main_tweet_id]

\* run-daily-post, scheduled or from the command line.
PostDailyVerse ==
    /\ pc = "idle"
    /\ steps < MaxSteps
    /\ \E force \in BOOLEAN, read_ok \in OkSet, write_ok \in OkSet,
          verse_data \in DailyVerses,
          post \in IF dry_run THEN {"ok"} ELSE {"ok", "fail"},
          reply \in IF dry_run THEN {"ok"} ELSE {"ok", "fail"} :
        LET r == post_daily_verse(daily_posts, force, now, dry_run,
                                  Len(post_tweet_calls) + 1, verse_data, post, reply,
                                  read_ok, write_ok)
        IN  /\ daily_posts' = r.db
            /\ post_tweet_calls' = IF r.main_tweet_id # NULL /\ ~dry_run
                                   THEN Append(post_tweet_calls,
                                               [date |-> today(now), force |-> force])
                                   ELSE post_tweet_calls
            /\ returned' = [op |-> "post_daily_verse", text |-> << >>,
                            source |-> [force |-> force, read_ok |-> read_ok,
                                        write_ok |-> write_ok,
                                        tweet_id |-> r.main_tweet_id],
                            ceiling |-> 0, value |-> r.value]
            /\ steps' = steps + 1
    /\ UNCHANGED <<running, last_run_date, scheduler, interactions, users, _read_call_count, now, dry_run, pc,
                   unprocessed_mentions, has_responded_impl, result, db_faulty,
                   publish_calls, failed_attempts, acted, last_call, last>>

\* The clock passes midnight.
Midnight ==
    /\ pc = "idle"
    /\ today(now) < MaxDay
    /\ now' = (today(now) + 1) * SecondsPerDay
    /\ UNCHANGED <<running, last_run_date, scheduler, interactions, users, _read_call_count, dry_run, pc,
                   unprocessed_mentions, has_responded_impl, result, db_faulty, steps,
                   publish_calls, failed_attempts, acted, last_call, last, daily_posts,
                   post_tweet_calls, returned>>

\* The process started with empty tables, on storage that may or may not fail.
InitDaily ==
    /\ interactions = [id \in TweetIds |-> << >>]
    /\ users = [a \in Authors |-> << >>]
    /\ _read_call_count = 0
    /\ now = 0
    /\ dry_run \in BOOLEAN
    /\ pc = "idle"
    /\ unprocessed_mentions = << >>
    /\ has_responded_impl = "handler"
    /\ result = << >>
    /\ db_faulty \in BOOLEAN
    /\ steps = 0
    /\ publish_calls = [id \in TweetIds |-> 0]
    /\ failed_attempts = {}
    /\ acted = {}
    /\ last_call = NoCall
    /\ last = NoStep
    /\ daily_posts = << >>
    /\ post_tweet_calls = << >>
    /\ returned = NoReturn
    /\ running = FALSE
    /\ last_run_date = NoTime
    /\ scheduler = NoLoop

NextDaily ==
    \/ PostDailyVerse
    \/ Midnight

SpecDaily == InitDaily /\ [][NextDaily]_vars

\* -------------------------------------------------------------- cleanup
\* A purge that takes every old row, whatever its status.
cleanup_every_old_row(db, days, t, ok) ==
    IF ~ok THEN [db |-> db, deleted_count |-> 0]
    ELSE LET old == {id \in DOMAIN db : /\ Len(db[id]) > 0
                                        /\ db[id][1].created_at # NoTime
                                        /\ db[id][1].created_at < t - days * SecondsPerDay}
         IN  [db |-> [id \in DOMAIN db |-> IF id \in old THEN << >> ELSE db[id]],
              deleted_count |-> Cardinality(old)]

\* A purge that takes every pending row, whatever its age.
cleanup_every_pending_row(db, days, t, ok) ==
    IF ~ok THEN [db |-> db, deleted_count |-> 0]
    ELSE LET pending == {id \in DOMAIN db : Len(db[id]) > 0 /\ db[id][1].status = "pending"}
         IN  [db |-> [id \in DOMAIN db |-> IF id \in pending THEN << >> ELSE db[id]],
              deleted_count |-> Cardinality(pending)]

\* DatabaseManager.cleanup_old_data: DELETE FROM interactions WHERE
\* created_at < NOW() - INTERVAL 'days days' AND status = 'pending'.
cleanup_old_data(db, days, t, ok) ==
    IF ~ok THEN [db |-> db, deleted_count |-> 0]
    ELSE LET stale == {id \in DOMAIN db : /\ Len(db[id]) > 0
                                          /\ db[id][1].status = "pending"
                                          /\ db[id][1].created_at # NoTime
                                          /\ db[id][1].created_at < t - days * SecondsPerDay}
         IN  [db |-> [id \in DOMAIN db |-> IF id \in stale THEN << >> ELSE db[id]],
              deleted_count |-> Cardinality(stale)]

\* run-cleanup(days): the nightly job asks for 30 days, the command line for
\* any number.
Cleanup ==
    /\ pc = "idle"
    /\ steps < MaxSteps
    /\ steps' = steps + 1
    /\ \E days \in {0, 1, 30}, ok \in OkSet :
        LET r == cleanup_old_data(interactions, days, now, ok)
        IN  /\ interactions' = r.db
            /\ returned' = [op |-> "cleanup_old_data", text |-> << >>,
                            source |-> [days |-> days, ok |-> ok, step |-> steps + 1],
                            ceiling |-> 0, value |-> r.deleted_count]
    /\ UNCHANGED <<running, last_run_date, scheduler, users, _read_call_count, now, dry_run, pc,
                   unprocessed_mentions, has_responded_impl, result, db_faulty,
                   publish_calls, failed_attempts, acted, last_call, last, daily_posts,
                   post_tweet_calls>>

\* The row earlier sweeps left for a mention: none; the row as stored on
\* entry, the attempt having failed; the row of a declined mention; the row
\* of an answered one.
RowAfter(id, outcome) ==
    LET stored == StoreInteractionRow([i \in TweetIds |-> << >>], FeedItem(id), TRUE)
    IN  CASE outcome = "absent" -> << >>
          [] outcome = "pending" -> stored[id]
          [] outcome = "declined" ->
               _update_interaction_response(stored, id, NO_REPLY, NULL, 0, TRUE)[id]
          [] outcome = "replied" ->
               _update_interaction_response(stored, id, <<"G", "o", "d", " ", "b", "l", "e", "s", "s", " ", "y", "o", "u", ".">>, ReplyId(id), 0, TRUE)[id]

\* The process between two jobs, the tables as earlier sweeps left them, with
\* MaxSteps - 1 handler steps behind it.
InitLedger ==
    /\ dry_run \in BOOLEAN
    /\ \E outcome \in [SearchableIds -> {"absent", "pending", "declined", "replied"}] :
        LET seen == {id \in SearchableIds : outcome[id] # "absent"}
        IN  /\ interactions = [id \in TweetIds |->
                                  IF id \in SearchableIds THEN RowAfter(id, outcome[id])
                                  ELSE << >>]
            /\ users = [a \in Authors |->
                           IF a # BotUserId /\ seen # {}
                           THEN <<[last_interaction |-> 0,
                                   interaction_count |-> Cardinality(seen)]>>
                           ELSE << >>]
            /\ failed_attempts = {id \in SearchableIds : outcome[id] = "pending"}
            /\ publish_calls = [id \in TweetIds |->
                                  IF id \in SearchableIds /\ outcome[id] = "replied" /\ ~dry_run
                                  THEN 1 ELSE 0]
    /\ _read_call_count = 0
    /\ now = 0
    /\ pc = "idle"
    /\ unprocessed_mentions = << >>
    /\ has_responded_impl = "handler"
    /\ result = << >>
    /\ db_faulty = FALSE
    /\ steps = MaxSteps - 1
    /\ acted = {}
    /\ last_call = NoCall
    /\ last = NoStep
    /\ daily_posts = << >>
    /\ post_tweet_calls = << >>
    /\ returned = NoReturn
    /\ running = FALSE
    /\ last_run_date = NoTime
    /\ scheduler = NoLoop

\* ------------------------------------------------ the duplicate check, alone
has_responded_asking_the_feed(impl, db, tweet_id, read_ok, count) ==
    IF read_ok
    THEN [value |-> HasResponded(impl, db, tweet_id, TRUE), count |-> count, issued |-> 0]
    ELSE [value |-> TRUE, count |-> count + 1, issued |-> 1]

\* One call of _has_responded_to_tweet or _has_responded_to_tweet_db_only as
\* a whole: the answer, the read counter afterwards and the feed reads
\* issued.  Both bodies run storage queries and log lines only; an
\* exception of the query is caught by the outer handler, which returns
\* False.
has_responded_call(impl, db, tweet_id, read_ok, count) ==
    [value |-> HasResponded(impl, db, tweet_id, read_ok), count |-> count, issued |-> 0]

\* A call of the duplicate check on its own, between two jobs.
CheckHandled ==
    /\ pc = "idle"
    /\ steps < MaxSteps
    /\ \E impl \in {"handler", "db_only"}, id \in TweetIds, read_ok \in OkSet :
        LET r == has_responded_call(impl, interactions, id, read_ok, _read_call_count)
        IN  /\ _read_call_count' = r.count
            /\ last_call' = [op |-> "_has_responded_to_tweet",
                             counted |-> r.count - _read_call_count,
                             issued |-> r.issued,
                             http |-> "none", items |-> 0]
            /\ returned' = [op |-> "_has_responded_to_tweet", text |-> << >>,
                            source |-> [impl |-> impl, id |-> id, read_ok |-> read_ok],
                            ceiling |-> 0, value |-> r.value]
    /\ steps' = steps + 1
    /\ UNCHANGED <<running, last_run_date, scheduler, interactions, users, now, dry_run, pc, unprocessed_mentions,
                   has_responded_impl, result, db_faulty, publish_calls,
                   failed_attempts, acted, last, daily_posts, post_tweet_calls>>

\* The process between two jobs, the tables as earlier sweeps left them, on
\* storage that works or may raise.
InitCheck ==
    /\ dry_run \in BOOLEAN
    /\ db_faulty \in BOOLEAN
    /\ \E outcome \in [SearchableIds -> {"absent", "pending", "declined", "replied"}] :
        /\ interactions = [id \in TweetIds |->
                              IF id \in SearchableIds THEN RowAfter(id, outcome[id])
                              ELSE << >>]
        /\ users = [a \in Authors |->
                       IF a # BotUserId /\ \E id \in SearchableIds : outcome[id] # "absent"
                       THEN <<[last_interaction |-> 0, interaction_count |-> 1]>>
                       ELSE << >>]
        /\ failed_attempts = {id \in SearchableIds : outcome[id] = "pending"}
        /\ publish_calls = [id \in TweetIds |->
                              IF id \in SearchableIds /\ outcome[id] = "replied" /\ ~dry_run
                              THEN 1 ELSE 0]
    /\ _read_call_count = 0
    /\ now = 0
    /\ pc = "idle"
    /\ unprocessed_mentions = << >>
    /\ has_responded_impl = "handler"
    /\ result = << >>
    /\ steps = MaxSteps - 2
    /\ acted = {}
    /\ last_call = NoCall
    /\ last = NoStep
    /\ daily_posts = << >>
    /\ post_tweet_calls = << >>
    /\ returned = NoReturn
    /\ running = FALSE
    /\ last_run_date = NoTime
    /\ scheduler = NoLoop

\* The duplicate check and the job that reads the feed once, in any order.
NextCheck ==
    \/ CheckHandled
    \/ SearchPrayers
    \/ RespondToPrayer
    \/ Tick

SpecCheck == InitCheck /\ [][NextCheck]_vars

\* Every job of the process, on storage that does not fail.
NextLedger ==
    \/ Next
    \/ Cleanup
    \/ PostDailyVerse
    \/ Midnight

SpecLedger == InitLedger /\ [][NextLedger]_vars

\* ------------------------------------------------------------ the run loop
\* getattr(config, 'PRAYER_SEARCH_INTERVAL_DAYS', 3)
PRAYER_SEARCH_INTERVAL_DAYS == 3
\* config.TIMEZONE, America/New_York in standard time: hours from UTC.
TzOffsetHours == -5
\* Days a behaviour of the run loop goes on for.
MaxLoopDays == 4

\* datetime.now(tz): the date, hour and minute in the target timezone.
LocalTime(t) ==
    LET local == t + TzOffsetHours * SecondsPerHour
    IN  [date |-> local \div SecondsPerDay,
         hour |-> (local % SecondsPerDay) \div SecondsPerHour,
         minute |-> (local % SecondsPerHour) \div 60]

\* schedule.run_pending at time t: the registered jobs whose next_run has
\* come, earliest first.  The daily jobs are registered at 08:00 and 09:00
\* local time and at 00:00 server time, the hourly ones run every hour
\* counted from their registration.
DueJobs(t, start) ==
    LET daily(h, m) == t > start /\ LocalTime(t).hour = h /\ LocalTime(t).minute = m
        hourly == t > start /\ (t - start) % SecondsPerHour = 0
        due(j) == CASE j = "_post_daily_verse" -> daily(8, 0)
                    [] j = "_check_mentions" -> daily(9, 0)
                    [] j = "_daily_cleanup" -> t > start /\ t % SecondsPerDay = 0
                    [] OTHER -> hourly
    IN  SelectSeq(<<"_post_daily_verse", "_check_mentions", "_daily_cleanup",
                    "interval_task", "_log_stats">>, due)

\* A job function whose body is not wrapped: what the body does, the call does.
job_boundary_unguarded(body) == body

\* The try / except Exception around the body of _post_daily_verse,
\* _check_mentions, _search_and_respond_to_prayers, _daily_cleanup and
\* _log_stats: the error is logged and the call returns.
job_boundary(body) == "returns"

\* An interval wrapper that does not look at the date of its last run.
interval_task_every_day(t, last_run, interval_days, hour, minute) ==
    LET current == LocalTime(t)
    IN  IF current.hour # hour THEN [ran |-> FALSE, last_run_date |-> last_run]
        ELSE IF current.minute >= minute THEN [ran |-> TRUE, last_run_date |-> current.date]
        ELSE [ran |-> FALSE, last_run_date |-> last_run]

\* interval_task of _schedule_interval_task: whether task_func is called, and
\* last_run_date[0] afterwards.
interval_task(t, last_run, interval_days, hour, minute) ==
    LET current == LocalTime(t)
    IN  IF current.hour # hour THEN [ran |-> FALSE, last_run_date |-> last_run]
        ELSE IF last_run # NoTime /\ current.date - last_run < interval_days
        THEN [ran |-> FALSE, last_run_date |-> last_run]
        ELSE IF current.minute >= minute THEN [ran |-> TRUE, last_run_date |-> current.date]
        ELSE [ran |-> FALSE, last_run_date |-> last_run]

\* What the run loop leaves alone.
LoopFrame == <<interactions, users, _read_call_count, dry_run, pc, unprocessed_mentions,
               has_responded_impl, result, db_faulty, steps, publish_calls,
               failed_attempts, acted, last_call, last, daily_posts, post_tweet_calls,
               returned>>

\* InChristAI._signal_handler: SIGINT or SIGTERM, at any moment from the
\* construction of the object on.
SignalHandler ==
    /\ scheduler.signal_at = "none"
    /\ scheduler.at \notin {"stopped", "failed"}
    /\ running' = FALSE
    /\ scheduler' = [scheduler EXCEPT !.signal_at = scheduler.at]
    /\ UNCHANGED <<now, last_run_date>>
    /\ UNCHANGED LoopFrame

\* InChristAI.start up to the main loop: the credentials are verified, the
\* jobs are registered, self.running = True.
StartLoop ==
    /\ scheduler.at = "startup"
    /\ \E credentials_ok \in BOOLEAN :
        IF credentials_ok
        THEN /\ running' = TRUE
             /\ scheduler' = [scheduler EXCEPT !.at = "while", !.start = now]
        ELSE /\ running' = running
             /\ scheduler' = [scheduler EXCEPT !.at = "stopped"]
    /\ UNCHANGED <<now, last_run_date>>
    /\ UNCHANGED LoopFrame

\* while self.running: the loop goes into schedule.run_pending() or ends.
WhileRunning ==
    /\ scheduler.at = "while"
    /\ scheduler' = IF running
                    THEN [scheduler EXCEPT !.at = "run_pending",
                                           !.due = DueJobs(now, scheduler.start)]
                    ELSE [scheduler EXCEPT !.at = "stopped"]
    /\ UNCHANGED <<now, running, last_run_date>>
    /\ UNCHANGED LoopFrame

\* A run_pending that hands each due job to a thread of its own and goes on
\* to the next one.
JobStarts_in_threads ==
    /\ scheduler.at \in {"run_pending", "job"}
    /\ scheduler.due # << >>
    /\ scheduler' = [scheduler EXCEPT !.at = "job", !.job = Head(scheduler.due),
                                      !.due = Tail(scheduler.due)]
    /\ UNCHANGED <<now, running, last_run_date>>
    /\ UNCHANGED LoopFrame

\* run_pending calls the next due job.
JobStarts ==
    /\ scheduler.at = "run_pending"
    /\ scheduler.due # << >>
    /\ scheduler' = [scheduler EXCEPT !.at = "job", !.job = Head(scheduler.due),
                                      !.due = Tail(scheduler.due)]
    /\ UNCHANGED <<now, running, last_run_date>>
    /\ UNCHANGED LoopFrame

\* The job that was called comes back: its body returned or raised.  The
\* keyword search is registered through interval_task at 10:00, and what
\* escapes a job ends start() in its except branch.
JobEnds ==
    /\ scheduler.at = "job"
    /\ \E body \in {"returns", "raises"} :
        LET job == scheduler.job
            it == interval_task(now, last_run_date, PRAYER_SEARCH_INTERVAL_DAYS, 10, 0)
            ran == IF job = "interval_task" THEN it.ran ELSE TRUE
            call == IF ran THEN job_boundary(body) ELSE "returns"
        IN  /\ ran \/ body = "returns"
            /\ last_run_date' = IF job = "interval_task" /\ call = "returns"
                                THEN it.last_run_date ELSE last_run_date
            /\ scheduler' = [scheduler EXCEPT
                    !.at = IF call = "raises" THEN "failed" ELSE "run_pending",
                    !.job = "none",
                    !.last_job = [job |-> job, at |-> now, ran |-> ran,
                                  raised |-> ran /\ body = "raises",
                                  prev |-> scheduler.last_job.job,
                                  prev_raised |-> scheduler.last_job.raised],
                    !.search_at = IF job = "interval_task" /\ ran THEN now ELSE @,
                    !.prev_search = IF job = "interval_task" /\ ran
                                    THEN scheduler.search_at ELSE @]
    /\ UNCHANGED <<now, running>>
    /\ UNCHANGED LoopFrame

\* The thread of WebServer.start serves one GET: /health answers from
\* constants, /status from get_status(), anything else is a 404.  The thread
\* runs from start() to the shutdown signal, whatever the loop is doing.
ServeRequest ==
    /\ scheduler.at \in {"while", "run_pending", "job"}
    /\ scheduler.signal_at = "none"
    /\ \E path \in {"/health", "/status", "/"} :
         scheduler' = [scheduler EXCEPT !.served = [path |-> path, at |-> scheduler.at]]
    /\ UNCHANGED <<now, running, last_run_date>>
    /\ UNCHANGED LoopFrame

\* time.sleep(1), as many times as it takes to the next half hour.
Sleep ==
    /\ scheduler.at = "run_pending"
    /\ scheduler.due = << >>
    /\ now + SecondsPerHour \div 2 <= MaxLoopDays * SecondsPerDay
    /\ now' = now + SecondsPerHour \div 2
    /\ scheduler' = [scheduler EXCEPT !.at = "while"]
    /\ UNCHANGED <<running, last_run_date>>
    /\ UNCHANGED LoopFrame

\* The object as constructed, at 09:00 or 09:30 local time of the first day.
InitScheduler ==
    /\ interactions = [id \in TweetIds |-> << >>]
    /\ users = [a \in Authors |-> << >>]
    /\ _read_call_count = 0
    /\ now \in {14 * SecondsPerHour, 14 * SecondsPerHour + SecondsPerHour \div 2}
    /\ dry_run = FALSE
    /\ pc = "idle"
    /\ unprocessed_mentions = << >>
    /\ has_responded_impl = "handler"
    /\ result = << >>
    /\ db_faulty = FALSE
    /\ steps = 0
    /\ publish_calls = [id \in TweetIds |-> 0]
    /\ failed_attempts = {}
    /\ acted = {}
    /\ last_call = NoCall
    /\ last = NoStep
    /\ daily_posts = << >>
    /\ post_tweet_calls = << >>
    /\ returned = NoReturn
    /\ running = FALSE
    /\ last_run_date = NoTime
    /\ scheduler = NoLoop

NextScheduler ==
    \/ SignalHandler
    \/ StartLoop
    \/ WhileRunning
    \/ JobStarts
    \/ JobEnds
    \/ ServeRequest
    \/ Sleep

SpecScheduler == InitScheduler /\ [][NextScheduler]_vars

\* C11: hourly cap.  With storage reads succeeding, whenever at least
\* max_responses_per_hour completed rows have responded_at within the last
\* hour, the step that decides on a candidate (of a mention sweep or of a
\* keyword search) selects nothing and publishes nothing.
C11_HourlyCapSelectsNothing ==
    [][(/\ pc \in {"loop", "respond"}
        /\ ~db_faulty
        /\ CountCompletedSince(interactions, now - SecondsPerHour) >= max_responses_per_hour)
       => (~last'.should /\ ~last'.publish)]_vars

\* C12: length ceiling.  Whatever text a composer is handed, what the
\* scheduled-post composer and the reply composers (error fallbacks
\* included) return is no longer than their ceiling, and a result shorter
\* than the text it was made from (the answer or the verse wording, outer
\* blanks and quotes apart) ends in "...".
C12_LengthCeiling ==
    returned.op \in {"_format_verse_only_tweet", "generate_response", "_ai_generate_response"}
    => /\ Len(returned.value) <= returned.ceiling
       /\ Len(returned.value) < Len(StripChars(strip(returned.source), QuoteChars))
          => /\ Len(returned.value) >= 3
             /\ SubSeq(returned.value, Len(returned.value) - 2, Len(returned.value)) = <<".", ".", ".">>

\* C13: truncation policy of _format_response.  For a text that, its
\* wrapping quotes removed, is longer than the ceiling L: the result is a
\* prefix of the text followed by "..."; if some sentence separator ". "
\* ends within the first L - 3 characters, the prefix runs to the last such
\* separator, less the full stops and blanks it would end in; otherwise the
\* prefix is exactly the first L - 3 characters.
C13_TruncationPolicy ==
    returned.op = "_format_response"
    => LET r == StripChars(returned.source, QuoteChars)
           L == returned.ceiling
           out == returned.value
           body == SubSeq(out, 1, Len(out) - 3)
           ends == {e \in 2..(L - 3) : e <= Len(r) /\ r[e - 1] = "." /\ r[e] = " "}
       IN  Len(r) > L
           => /\ Len(out) >= 3
              /\ SubSeq(out, Len(out) - 2, Len(out)) = <<".", ".", ".">>
              /\ Len(out) <= L
              /\ body = SubSeq(r, 1, Len(body))
              /\ IF ends = {}
                 THEN Len(body) = L - 3
                 ELSE /\ \E e \in ends :
                           /\ \A d \in ends : d <= e
                           /\ Len(body) <= e
                           /\ \A i \in (Len(body) + 1)..e : r[i] \in {".", " "}
                      /\ Len(body) > 0 => body[Len(body)] \notin {".", " "}

\* A text longer than the ceiling of 280 was cut at a sentence break, giving
\* fewer than 280 characters.
C13_CutAtSentenceReached ==
    /\ returned.op = "_format_response"
    /\ returned.ceiling = TwitterCharLimit
    /\ Len(returned.source) > TwitterCharLimit
    /\ Len(returned.value) > 3
    /\ Len(returned.value) < TwitterCharLimit
    /\ SubSeq(returned.value, Len(returned.value) - 2, Len(returned.value)) = <<".", ".", ".">>

\* C14: category coercion.  Whatever the classifier answers, the mood step
\* returns a label of the closed set: the classifier's label when that is a
\* member, and "sad" for an unknown label, a missing label, an answer that
\* is not a JSON object, and an error.
C14_MoodInClosedSet ==
    returned.op = "_ai_determine_mood"
    => /\ returned.value \in available_moods
       /\ returned.value =
            IF /\ returned.source.kind = "object"
               /\ returned.source.has_label
               /\ returned.source.label \in available_moods
            THEN returned.source.label ELSE "sad"

\* The classifier named a label outside the set and the step returned "sad".
C14_UnknownLabelCoercedReached ==
    /\ returned.op = "_ai_determine_mood"
    /\ returned.source.kind = "object"
    /\ returned.source.has_label
    /\ returned.source.label = "happy"
    /\ returned.value = "sad"

\* C15: daily-post uniqueness.  After every invocation of run-daily-post,
\* forced or not, succeeding or failing, daily_posts has at most one row per
\* date; and a forced invocation that posted and whose write succeeded, on
\* a date that had a row, leaves the number of rows as it was and the row
\* of that date holding the new tweet id and the time of the re-post.
C15_OneRowPerDate ==
    [][/\ \A i, j \in 1..Len(daily_posts') :
             daily_posts'[i].date = daily_posts'[j].date => i = j
       /\ (/\ steps' = steps + 1
           /\ returned'.op = "post_daily_verse"
           /\ returned'.source.force
           /\ returned'.source.write_ok
           /\ returned'.source.tweet_id # NULL
           /\ \E i \in 1..Len(daily_posts) : daily_posts[i].date = today(now))
          => /\ Len(daily_posts') = Len(daily_posts)
             /\ \E i \in 1..Len(daily_posts') :
                   /\ daily_posts'[i].date = today(now)
                   /\ daily_posts'[i].tweet_id = returned'.source.tweet_id
                   /\ daily_posts'[i].posted_at = now]_vars

\* A forced re-post replaced the row of the first post of the day.
C15_ForcedRepostReplacedReached ==
    /\ returned.op = "post_daily_verse"
    /\ returned.source.force
    /\ ~dry_run
    /\ Len(post_tweet_calls) = 2
    /\ post_tweet_calls[1].date = post_tweet_calls[2].date
    /\ Len(daily_posts) = 1
    /\ daily_posts[1].tweet_id = returned.source.tweet_id
    /\ returned.source.tweet_id # NULL

\* C16: a non-forced daily post is idempotent per date.  When today has a
\* row and the read succeeds, a non-forced invocation posts nothing, leaves
\* daily_posts as it is and returns true; so, on storage that does not
\* fail, non-forced invocations post at most one primary tweet per date.
C16_NonForcedIdempotent ==
    [][/\ (/\ steps' = steps + 1
           /\ returned'.op = "post_daily_verse"
           /\ ~returned'.source.force
           /\ returned'.source.read_ok
           /\ \E i \in 1..Len(daily_posts) : daily_posts[i].date = today(now))
          => /\ daily_posts' = daily_posts
             /\ post_tweet_calls' = post_tweet_calls
             /\ returned'.value = TRUE
       /\ ~db_faulty
          => \A i, j \in 1..Len(post_tweet_calls') :
                (/\ ~post_tweet_calls'[i].force
                 /\ ~post_tweet_calls'[j].force
                 /\ post_tweet_calls'[i].date = post_tweet_calls'[j].date) => i = j]_vars

\* A second non-forced invocation on the day of a post returned true
\* without posting.
C16_SecondRunSkippedReached ==
    /\ returned.op = "post_daily_verse"
    /\ ~returned.source.force
    /\ returned.source.read_ok
    /\ returned.source.tweet_id = NULL
    /\ returned.value = TRUE
    /\ ~dry_run
    /\ Len(post_tweet_calls) = 1
    /\ ~post_tweet_calls[1].force
    /\ Len(daily_posts) = 1
    /\ daily_posts[1].date = today(now)

\* C17: the purge.  A cleanup whose query succeeds deletes exactly the rows
\* that are pending and were created before now - days, and reports their
\* number; every other row (completed, or pending and not older than the
\* threshold) is as it was.  A cleanup whose query fails changes nothing.
C17_PurgesExactlyStalePending ==
    [][(/\ returned'.op = "cleanup_old_data"
        /\ steps' = steps + 1
        /\ returned'.source.step = steps')
       => LET stale == {id \in DOMAIN interactions :
                           /\ returned'.source.ok
                           /\ Len(interactions[id]) > 0
                           /\ RowOf(id).status = "pending"
                           /\ RowOf(id).created_at < now - returned'.source.days * SecondsPerDay}
          IN  /\ \A id \in DOMAIN interactions :
                   interactions'[id] = IF id \in stale THEN << >> ELSE interactions[id]
              /\ returned'.value = Cardinality(stale)]_vars

\* A cleanup deleted the one stale pending row and kept an older completed one.
C17_StalePendingPurgedReached ==
    /\ returned.op = "cleanup_old_data"
    /\ returned.value = 1
    /\ interactions["T1"] = << >>
    /\ "T1" \in failed_attempts
    /\ Len(interactions["T2"]) > 0
    /\ RowOf("T2").status = "completed"
    /\ RowOf("T2").created_at < now - returned.source.days * SecondsPerDay

\* C18: duplicate suppression never regresses.  With storage reads
\* succeeding, no step of any job (mention sweep, keyword search, daily
\* post, cleanup with any threshold) takes an item from handled to not
\* handled, under either duplicate check, and no completed row is deleted
\* or leaves the completed status.
C18_HandledStaysHandled ==
    [][\A id \in TweetIds :
          /\ \A impl \in DuplicateChecks :
                HasResponded(impl, interactions, id, TRUE)
                => HasResponded(impl, interactions', id, TRUE)
          /\ (Len(interactions[id]) > 0 /\ RowOf(id).status = "completed")
             => (Len(interactions'[id]) > 0 /\ interactions'[id][1].status = "completed")]_vars

\* A cleanup with threshold now ran over an older answered item, which is
\* still handled.
C18_HandledSurvivedCleanupReached ==
    /\ returned.op = "cleanup_old_data"
    /\ returned.source.days = 0
    /\ Len(interactions["T1"]) > 0
    /\ RowOf("T1").created_at < now
    /\ \A impl \in DuplicateChecks : HasResponded(impl, interactions, "T1", TRUE)

\* C19: the duplicate check fails open and stays local.  When its storage
\* query raises, either implementation answers false (and does not raise);
\* and whether the query succeeds or raises, the call issues no feed read
\* and leaves the read-call counter as it was.
C19_FailsOpenAndStaysLocal ==
    /\ (returned.op = "_has_responded_to_tweet" /\ ~returned.source.read_ok)
        => returned.value = FALSE
    /\ last_call.op = "_has_responded_to_tweet"
        => (last_call.issued = 0 /\ last_call.counted = 0)

\* The check was asked about an answered item while storage raised, after a
\* feed read had been counted, and said false.
C19_AnsweredItemReadFailedReached ==
    /\ returned.op = "_has_responded_to_tweet"
    /\ last_call.op = "_has_responded_to_tweet"
    /\ ~returned.source.read_ok
    /\ returned.value = FALSE
    /\ HasResponded(returned.source.impl, interactions, returned.source.id, TRUE)
    /\ _read_call_count > 0

\* C20: a 429 from the feed is no results for the cycle.  A sweep or keyword
\* search whose direct request is answered 429 gets an empty list from
\* get_mentions / search_tweets whatever the feed holds, has issued that one
\* request and no other remote read (no fallback, no retry), and ends there:
\* nothing is published and no table is written.
C20_ThrottledCycleDoesNothing ==
    [][(pc = "idle" /\ steps' = steps + 1 /\ last_call'.http = "429")
       => /\ last_call'.op \in {"get_mentions", "search_tweets"}
          /\ last_call'.items = 0
          /\ last_call'.issued = 1
          /\ pc' = "idle"
          /\ unprocessed_mentions' = << >>
          /\ result' = << >>
          /\ publish_calls' = publish_calls
          /\ post_tweet_calls' = post_tweet_calls
          /\ interactions' = interactions
          /\ users' = users
          /\ daily_posts' = daily_posts]_vars

\* A mention sweep that found work in an earlier cycle was answered 429 in
\* this one and ended idle.
C20_ThrottledSweepReached ==
    /\ last_call.op = "get_mentions"
    /\ last_call.http = "429"
    /\ last_call.items = 0
    /\ pc = "idle"
    /\ acted = {}
    /\ \E id \in TweetIds : Len(interactions[id]) > 0

\* C21: classifier fallback.  When the selection classifier answers text
\* that is not JSON, or calling it raises, select_and_respond_to_tweet hands
\* back a selection of the top candidate of the keyword ranking, whenever
\* the ranking has a candidate, the verse lookup succeeds and a reply text
\* is produced.
C21_ClassifierFallback ==
    (/\ returned.op = "select_and_respond_to_tweet"
     /\ returned.source.sel \in {"malformed", "raise"}
     /\ returned.source.verse_ok
     /\ returned.source.answer # << >>
     /\ _fallback_keyword_selection(returned.source.tweets) # << >>)
    => /\ returned.value # << >>
       /\ returned.value[1].id = _fallback_keyword_selection(returned.source.tweets)[1]

\* C22: dry-run makes no real publish.  In a process started with the
\* dry-run flag no step of the daily post, the mention sweep or the keyword
\* search makes a real post_tweet or reply_to_tweet call, and every reply id
\* or post id such a step writes down is the synthetic one.
C22_DryRunNeverPublishes ==
    [][dry_run =>
        /\ publish_calls' = publish_calls
        /\ post_tweet_calls' = post_tweet_calls
        /\ \A id \in TweetIds :
              (Len(interactions'[id]) > 0 /\ interactions'[id] # interactions[id])
              => \/ interactions'[id][1].response_tweet_id \in {NULL, DryRunReplyId}
                 \/ /\ Len(interactions[id]) > 0
                    /\ interactions'[id][1].response_tweet_id = RowOf(id).response_tweet_id
        /\ \A i \in 1..Len(daily_posts') :
              (i > Len(daily_posts) \/ daily_posts'[i] # daily_posts[i])
              => /\ daily_posts'[i].tweet_id = "dry_run_" \o ToString(now)
                 /\ daily_posts'[i].reply_tweet_id = DryRunReplyId]_vars

\* In a dry run a mention was answered: its row holds the synthetic reply id
\* and no real reply call was made for it.
C22_DryRunReplyRecordedReached ==
    /\ dry_run
    /\ last.op = "mention"
    /\ last.publish
    /\ Len(last.prev) = 0
    /\ Len(interactions[last.id]) > 0
    /\ RowOf(last.id).response_tweet_id = DryRunReplyId
    /\ publish_calls[last.id] = 0

\* C23: dry-run still records.  In a process started with the dry-run flag,
\* with storage working, an item a mention sweep answered, or an item a
\* keyword search selected and had not handled before, has a completed
\* ledger row afterwards that holds the synthetic reply id.
C23_DryRunRecordsOutcome ==
    (/\ dry_run
     /\ ~db_faulty
     /\ \/ last.op = "mention" /\ last.publish
        \/ /\ last.op = "prayer"
           /\ ~_has_responded_to_tweet_db_only([interactions EXCEPT ![last.id] = last.prev],
                                                last.id, TRUE))
    => /\ Len(interactions[last.id]) > 0
       /\ RowOf(last.id).status = "completed"
       /\ RowOf(last.id).response_tweet_id = DryRunReplyId

\* C24: job failure isolation.  When the body of a scheduled job raises, the
\* call still returns to run_pending: the loop is not ended by it, the
\* running flag is as it was, and the jobs still due in this tick are the
\* same as before the call.
C24_JobFailureIsolated ==
    [][/\ scheduler'.at # "failed"
       /\ (scheduler.at = "job" /\ scheduler'.at # "job")
          => /\ scheduler'.at = "run_pending"
             /\ scheduler'.job = "none"
             /\ scheduler'.due = scheduler.due
             /\ running' = running]_vars

\* The keyword search raised, and the statistics job due in the same tick
\* ran after it.
C24_NextJobRanAfterFailureReached ==
    /\ scheduler.at = "run_pending"
    /\ scheduler.last_job.job = "_log_stats"
    /\ scheduler.last_job.ran
    /\ scheduler.last_job.prev = "interval_task"
    /\ scheduler.last_job.prev_raised

\* C25: cooperative shutdown.  Once the shutdown signal has been handled, a
\* job that is running comes back to run_pending as it would have, and the
\* next test of the running flag ends the loop: no further tick is begun.
C25_CooperativeShutdown ==
    [][scheduler.signal_at # "none"
       => /\ (scheduler.at = "job" /\ scheduler'.at # "job")
             => (scheduler'.at = "run_pending" /\ scheduler'.last_job.job = scheduler.job)
          /\ scheduler.at = "while" => scheduler'.at = "stopped"]_vars

InitFaulty ==
    /\ interactions = [id \in TweetIds |->
                          IF id = Head(TweetOrder) THEN RowAfter(id, "replied") ELSE << >>]
    /\ users = [a \in Authors |->
                   IF a = FeedItem(Head(TweetOrder)).author_id
                   THEN <<[last_interaction |-> 0, interaction_count |-> 1]>>
                   ELSE << >>]
    /\ failed_attempts = {}
    /\ publish_calls = [id \in TweetIds |-> IF id = Head(TweetOrder) THEN 1 ELSE 0]
    /\ _read_call_count = 0
    /\ now = 0
    /\ dry_run = FALSE
    /\ pc = "idle"
    /\ unprocessed_mentions = << >>
    /\ has_responded_impl = "handler"
    /\ result = << >>
    /\ db_faulty = TRUE
    /\ steps = MaxSteps - 1
    /\ acted = {}
    /\ last_call = NoCall
    /\ last = NoStep
    /\ daily_posts = << >>
    /\ post_tweet_calls = << >>
    /\ returned = NoReturn
    /\ running = FALSE
    /\ last_run_date = NoTime
    /\ scheduler = NoLoop

SpecFaulty == InitFaulty /\ [][Next]_vars

\* C27: a write to the interactions or users table that raises during a
\* cycle stays inside the cycle: the step that met it still hands the rest of
\* the sweep back (the next mention, the next selected item, or the idle
\* loop), no publish already made is taken back, a reply that was composed
\* is still published, and a reply that went out is still reported as a
\* success.
C27_WriteFailureStaysInCycle ==
    [][ /\ (pc = "loop" /\ steps' = steps + 1 /\ last'.op = "mention") =>
            /\ unprocessed_mentions' = Tail(unprocessed_mentions)
            /\ pc' = IF Tail(unprocessed_mentions) = << >> THEN "idle" ELSE "loop"
            /\ \A id \in TweetIds : publish_calls'[id] >= publish_calls[id]
            /\ (/\ last'.should
                /\ LET response_text == generate_response(FeedItem(last'.id).text, last'.answer)
                   IN  response_text # << >> /\ ~IsNoReply(response_text))
               => /\ last'.publish
                  /\ ~dry_run => publish_calls'[last'.id] = publish_calls[last'.id] + 1
            /\ last'.reply_id # NULL => last'.success
        /\ (pc = "respond" /\ result' # result) =>
            /\ result' = Tail(result)
            /\ pc' = IF Tail(result) = << >> THEN "idle" ELSE "respond"
            /\ \A id \in TweetIds : publish_calls'[id] >= publish_calls[id]
            /\ last'.reply_id # NULL => last'.success
      ]_vars
\* The sweep published a reply to a mention, both ledger writes for it
\* raised, and the sweep went on to its next mention.
C27_PublishedWithoutRowReached ==
    /\ db_faulty
    /\ pc = "loop"
    /\ last.op = "mention" /\ last.reply_id # NULL /\ last.success
    /\ last.prev = << >>
    /\ publish_calls[last.id] = 1 /\ interactions[last.id] = << >>

\* C29: of two consecutive get_mentions calls with the same parameters in
\* one process, the second is served from a local cache: it issues no remote
\* call, leaves the read-call counter as it was and hands back what the first
\* call handed back.
C29_SecondCallServedFromCache ==
    [][ (/\ pc = "idle" /\ last = NoStep
         /\ last_call.op = "get_mentions" /\ last_call.http = "200"
         /\ steps' = steps + 1 /\ last_call'.op = "get_mentions")
        => /\ last_call'.issued = 0
           /\ _read_call_count' = _read_call_count
           /\ last_call'.items = last_call.items
      ]_vars
\* C28: every interaction attempt with an author, in the mention sweep (the
\* mention passed the checks and was processed) and in the keyword search (a
\* reply to the selected item was attempted), adds exactly one to the
\* author's interaction_count and sets last_interaction, whether or not a
\* reply went out; no other step changes the users table.
C28_OneCountPerAttempt ==
    [][ LET mention_attempt == pc = "loop" /\ steps' = steps + 1 /\ last'.should
            search_attempt == pc = "respond" /\ result' # result /\ last'.publish
            author == FeedItem(last'.id).author_id
            before == IF Len(users[author]) > 0 THEN users[author][1].interaction_count ELSE 0
        IN  IF mention_attempt \/ search_attempt
            THEN /\ Len(users'[author]) = 1
                 /\ users'[author][1].interaction_count = before + 1
                 /\ users'[author][1].last_interaction = now
                 /\ \A a \in Authors \ {author} : users'[a] = users[a]
            ELSE users' = users
      ]_vars
C31_CompletedHasRespondedAt ==
    \A id \in TweetIds :
        (Len(interactions[id]) > 0 /\ interactions[id][1].status = "completed")
        => interactions[id][1].responded_at # NoTime
\* A mention was declined: its row is completed as NO_REPLY with no reply id.
C31_DeclinedRowCompletedReached ==
    /\ last.op = "mention" /\ last.success /\ last.reply_id = NULL
    /\ Len(interactions[last.id]) = 1
    /\ interactions[last.id][1].status = "completed"
    /\ interactions[last.id][1].response_tweet_id = NULL
    /\ interactions[last.id][1].response_text = NO_REPLY
\* C32: whenever the mention sweep publishes a reply to a mention and the
\* outcome write (_update_interaction_response) does not raise, the
\* interactions table afterwards holds a completed row for the mention with
\* that reply's id, so the duplicate check finds it handled from then on,
\* also when the earlier _store_interaction for the mention had failed.
C32_PublishedReplyRecorded ==
    (/\ last.op = "mention" /\ last.reply_id # NULL /\ last.outcome_write_ok)
    => /\ Len(interactions[last.id]) = 1
       /\ interactions[last.id][1].status = "completed"
       /\ interactions[last.id][1].response_tweet_id = last.reply_id
       /\ _has_responded_to_tweet(interactions, last.id, TRUE)
       /\ _has_responded_to_tweet_db_only(interactions, last.id, TRUE)
\* C33: after any sequence of mention sweeps and keyword searches, the
\* number of completed rows of the interactions table whose responded_at
\* lies within the last hour is at most max_responses_per_hour, whichever
\* path recorded them.
C33_HourlyCountWithinCap ==
    CountCompletedSince(interactions, now - SecondsPerHour) <= max_responses_per_hour
\* ----------------------------------------------------- the triage, alone
SpecTriage == InitLedger /\ [][TriageMention \/ Tick]_vars

\* C34: _should_respond_to_mention rejects a mention whose author is the
\* bot's own account, one whose text holds a blocked word in any case, and one
\* whose check raises (the dict has no text); and for a rejected mention the
\* sweep calls no generator, publishes nothing and writes neither table.
C34_TriageExclusions ==
    [][ (returned'.op = "_should_respond_to_mention" /\ steps' = steps + 1)
        => LET mention == returned'.source
               excluded == \/ mention.author_id = BotUserId
                           \/ "text" \notin DOMAIN mention
                           \/ \E word \in {<<"s", "p", "a", "m">>, <<"b", "o", "t">>, <<"f", "a", "k", "e">>, <<"s", "c", "a", "m">>} :
                                \E i \in 1..Len(mention.text) :
                                    /\ i + Len(word) - 1 <= Len(mention.text)
                                    /\ lower(SubSeq(mention.text, i, i + Len(word) - 1)) = word
           IN  /\ excluded => ~returned'.value
               /\ ~returned'.value
                  => /\ ~last'.should /\ last'.answer = << >> /\ ~last'.publish
                     /\ interactions' = interactions
                     /\ users' = users
                     /\ publish_calls' = publish_calls
      ]_vars
\* A mention with a blocked word in capitals, from an author never seen and
\* with no row, was rejected.
C34_BlockedInCapitalsRejectedReached ==
    /\ returned.op = "_should_respond_to_mention"
    /\ "text" \in DOMAIN returned.source
    /\ returned.source.text = <<"S", "P", "A", "M">>
    /\ returned.source.author_id # BotUserId
    /\ users[returned.source.author_id] = << >>
    /\ last.prev = << >>
    /\ ~returned.value
\* C35: inside a sweep a mention whose processing fails (no text from the
\* generator, no id from the publish, an exception) does not stop the sweep:
\* the loop goes on to the next mention of the batch; and the count that
\* process_mentions returns starts at 0 and goes up by one exactly for the
\* mentions whose processing succeeded (reply posted, or NO_REPLY recorded).
C35_FailureIsolatedAndCounted ==
    [][ /\ (pc = "idle" /\ pc' = "loop") => last'.processed_count = 0
        /\ (pc = "loop" /\ steps' = steps + 1 /\ last'.op = "mention")
           => LET id == Head(unprocessed_mentions)
                  response_text == generate_response(FeedItem(id).text, last'.answer)
                  succeeded == /\ last'.should
                               /\ \/ last'.reply_id # NULL
                                  \/ response_text # << >> /\ IsNoReply(response_text)
              IN  /\ last'.id = id
                  /\ unprocessed_mentions' = Tail(unprocessed_mentions)
                  /\ pc' = IF Tail(unprocessed_mentions) = << >> THEN "idle" ELSE "loop"
                  /\ last'.success = succeeded
                  /\ last'.processed_count
                       = last.processed_count + IF succeeded THEN 1 ELSE 0
      ]_vars
\* A sweep in which one mention failed and a later one was answered has
\* returned 1.
C35_SuccessAfterFailureReached ==
    /\ pc = "idle"
    /\ last.op = "mention" /\ last.success /\ last.reply_id # NULL
    /\ last.processed_count = 1
    /\ \E id \in acted \ {last.id} :
          /\ id \in failed_attempts
          /\ Len(interactions[id]) = 1
          /\ interactions[id][1].status = "pending"
\* C36: every text post_tweet or reply_to_tweet hands to the platform, in a
\* real or a simulated run, is at most 280 characters long: a longer input is
\* replaced by its first 277 characters followed by "...", and an input of at
\* most 280 characters goes out unchanged.
C36_PublishBoundaryGuard ==
    returned.op \in {"post_tweet", "reply_to_tweet"}
    => /\ Len(returned.value) <= 280
       /\ Len(returned.source) > 280
          => returned.value = [i \in 1..280 |-> IF i <= 277 THEN returned.source[i] ELSE "."]
       /\ Len(returned.source) <= 280 => returned.value = returned.source
\* A reply of 281 characters went out as 280, and one of 280 as it was.
C36_LongReplyCutReached ==
    /\ returned.op = "reply_to_tweet"
    /\ Len(returned.source) = 281
    /\ Len(returned.value) = 280
    /\ returned.value[277] = returned.source[277]
    /\ returned.value[278] = "."
\* C37: _format_verse_only_tweet returns the first form that fits the
\* ceiling of 280, in the order: the full template (quoted text, blank line,
\* attribution), the other template variants, the quoted text truncated with
\* an ellipsis, the attribution alone; a later form is returned only if every
\* earlier form exceeds the ceiling.
C37_DegradationLadder ==
    returned.op = "_format_verse_only_tweet"
    => LET text == returned.source
           attribution == Verse.reference \o <<" ", "(">> \o Verse.version \o <<")">>
           full == <<"\"">> \o text \o <<"\"", "\n", "\n">> \o attribution
           tagged == full \o <<"\n", "\n">> \o <<"#", "B", "i", "b", "l", "e", "V", "e", "r", "s", "e", " ", "#", "F", "a", "i", "t", "h">>
           dashed == <<"\"">> \o text \o <<"\"", "\n", "\n", "-", " ">> \o attribution
           room == 280 - Len(attribution) - 3
           cut == IF room - 3 < Len(text) THEN room - 3 ELSE Len(text)
           truncated == <<"\"">> \o SubSeq(text, 1, cut) \o <<".", ".", ".", "\"", "\n", "\n">> \o attribution
           forms == <<full, tagged, dashed, truncated, attribution>>
           fits == {i \in 1..Len(forms) : Len(forms[i]) <= 280}
       IN  /\ fits # {}
           /\ returned.value = forms[CHOOSE i \in fits : \A j \in fits : i <= j]
\* C38: when the text-generation service raises inside generate_response,
\* the reply is the canned text of the mention's keyword intent
\* (prayer_request, verse_request, comfort_needed, gratitude, question,
\* general), never empty and never NO_REPLY: the sweep hands it to
\* reply_to_tweet, and once it is out the row is completed with that text.
C38_ErrorFallbackIsCannedText ==
    (/\ returned.op = "_should_respond_to_mention" /\ returned.value
     /\ last.op = "mention" /\ last.answer = RAISE)
    => LET text == returned.source.text
           quoted == CASE text = <<"P", "r", "a", "y", " ", "f", "o", "r", " ", "m", "e">> -> <<"I", "'", "m", " ", "p", "r", "a", "y", "i", "n", "g", " ", "f", "o", "r", " ", "y", "o", "u", "!">>
                       [] text = <<"W", "h", "i", "c", "h", " ", "v", "e", "r", "s", "e", "?">> -> <<"J", "e", "r", "e", "m", "i", "a", "h", " ", "2", "9", ":", "1", "1">>
                       [] text = <<"I", " ", "f", "e", "e", "l", " ", "l", "o", "s", "t">> -> <<"P", "s", "a", "l", "m", " ", "3", "4", ":", "1", "8">>
                       [] text = <<"T", "h", "a", "n", "k", " ", "y", "o", "u">> -> <<"P", "s", "a", "l", "m", " ", "1", "0", "7", ":", "1">>
                       [] text = <<"H", "o", "w", " ", "s", "o">> -> <<"P", "r", "o", "v", "e", "r", "b", "s", " ", "3", ":", "5">>
                       [] text = <<"F", "a", "i", "t", "h">> -> <<"G", "o", "d", " ", "b", "l", "e", "s", "s", " ", "y", "o", "u", "!">>
           row == interactions[last.id]
       IN  /\ last.publish
           /\ last.reply_id # NULL
              => /\ last.success
                 /\ Len(row) = 1
                 /\ row[1].status = "completed"
                 /\ row[1].response_tweet_id = last.reply_id
                 /\ row[1].response_text # << >>
                 /\ ~IsNoReply(row[1].response_text)
                 /\ Contains(row[1].response_text, quoted)
\* The service raised on a mention asking for comfort; the canned verse for
\* comfort went out and is in the completed row.
C38_ComfortFallbackPublishedReached ==
    /\ returned.op = "_should_respond_to_mention" /\ returned.value
    /\ returned.source.text = <<"I", " ", "f", "e", "e", "l", " ", "l", "o", "s", "t">>
    /\ last.answer = RAISE /\ last.reply_id # NULL
    /\ Len(interactions[last.id]) = 1
    /\ interactions[last.id][1].status = "completed"
    /\ Contains(interactions[last.id][1].response_text, <<"P", "s", "a", "l", "m", " ", "3", "4", ":", "1", "8">>)
\* C39: the candidate_score of a tweet is 5 for each high-priority keyword
\* found in its lower-cased text, plus 3 for each medium-priority keyword,
\* plus 1 for each low-priority keyword, plus 2 if the text has a question
\* mark; and _filter_response_candidates hands back at most 5 candidates, in
\* non-increasing order of that score.
C39_ScoreAndOrder ==
    returned.op = "_filter_response_candidates"
    => LET out == returned.value
           Has(tweet, keyword) == Contains(lower(tweet.text), keyword)
           Points(tweet, weight, keywords) ==
               LET Sum[i \in 0..Len(keywords)] ==
                       IF i = 0 THEN 0
                       ELSE Sum[i - 1] + IF Has(tweet, keywords[i]) THEN weight ELSE 0
               IN  Sum[Len(keywords)]
           expected(tweet) ==
               Points(tweet, 5, <<<<"p", "r", "a", "y", " ", "f", "o", "r", " ", "m", "e">>, <<"n", "e", "e", "d", " ", "p", "r", "a", "y", "e", "r">>, <<"p", "r", "a", "y", "e", "r", " ", "r", "e", "q", "u", "e", "s", "t">>, <<"s", "t", "r", "u", "g", "g", "l", "i", "n", "g">>, <<"d", "e", "p", "r", "e", "s", "s", "e", "d">>, <<"a", "n", "x", "i", "o", "u", "s">>, <<"l", "o", "s", "t">>, <<"b", "r", "o", "k", "e", "n">>, <<"h", "o", "p", "e", "l", "e", "s", "s">>>>)
               + Points(tweet, 3, <<<<"p", "r", "a", "y">>, <<"p", "r", "a", "y", "e", "r">>, <<"g", "o", "d">>, <<"h", "e", "l", "p">>, <<"d", "i", "f", "f", "i", "c", "u", "l", "t">>, <<"h", "u", "r", "t">>>>)
               + Points(tweet, 1, <<<<"f", "e", "e", "l", "i", "n", "g">>, <<"w", "h", "y">>, <<"h", "o", "w">>, <<"c", "o", "n", "f", "u", "s", "e", "d">>, <<"s", "c", "a", "r", "e", "d">>>>)
               + (IF \E i \in 1..Len(tweet.text) : tweet.text[i] = "?" THEN 2 ELSE 0)
       IN  /\ Len(out) <= 5
           /\ \A i \in 1..Len(out) : out[i].candidate_score = expected(out[i])
           /\ \A i \in 1..Len(out) : \A j \in i..Len(out) :
                  out[i].candidate_score >= out[j].candidate_score
\* Seven of the tweets handed in were candidates; the five with the highest
\* scores came back, the best first.
C39_TopFiveOfSevenReached ==
    /\ returned.op = "_filter_response_candidates"
    /\ Len(returned.source) = Len(SampleTweets)
    /\ Len(returned.value) = 5
    /\ returned.value[1].id = "S5" /\ returned.value[1].candidate_score = 8
    /\ returned.value[2].candidate_score = 6 /\ returned.value[3].candidate_score = 6
    /\ returned.value[5].candidate_score = 3
\* C40: no overlapping job executions.  A job body is running exactly while
\* the loop is inside a job call; a job starts only from run_pending with no
\* job running, so the job that ran before it has come back; the running job
\* is replaced by no other job before it comes back; and a request served by
\* the health server's thread starts or ends no job.
C40_OneJobAtATime ==
    [][ /\ (scheduler'.job # "none") = (scheduler'.at = "job")
        /\ (scheduler'.job # scheduler.job /\ scheduler'.job # "none")
           => /\ scheduler.job = "none"
              /\ scheduler.at = "run_pending"
              /\ scheduler.due # << >>
              /\ scheduler'.job = Head(scheduler.due)
        /\ (scheduler.job # "none" /\ scheduler'.job = "none")
           => scheduler'.last_job.job = scheduler.job
        /\ scheduler'.served # scheduler.served
           => (scheduler'.job = scheduler.job /\ scheduler'.at = scheduler.at
               /\ scheduler'.due = scheduler.due)
      ]_vars
\* The second of two jobs due in the same tick is running, the first came
\* back in this tick, and a status request was served during a job.
C40_SecondJobOfTickRunningReached ==
    /\ scheduler.at = "job"
    /\ scheduler.job # "none"
    /\ scheduler.last_job.job \notin {"none", scheduler.job}
    /\ scheduler.last_job.at = now
    /\ scheduler.served = [path |-> "/status", at |-> "job"]
====
